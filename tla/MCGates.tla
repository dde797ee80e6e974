------------------------------ MODULE MCGates ------------------------------
(* Instances of Gates for TLC. *)
EXTENDS Gates

App == <<"run", "projects", "app">>
Src == <<"run", "projects", "app", "src">>
Lib == <<"run", "projects", "lib">>
Note == <<"run", "notes", "spec">>

User == <<"user", "spec">>
UserApp == <<"user", "app">>

\* Roots that climb out of a project: into the notes, and into another project.
Climb == <<"run", "projects", "app", "..", "..", "notes", "spec">>
Across == <<"run", "projects", "app", "..", "lib">>

Copy(r, reads) == [kind |-> "copy", write |-> r, managed |-> r, reads |-> reads]
Snapshot(r) == [kind |-> "notes", write |-> r, managed |-> r, reads |-> {RunRoot, r, User}]

MCWorkspaces == {
  [flat |-> FALSE, projects |-> [app |-> Copy(App, {RunRoot, App, UserApp}), spec |-> Snapshot(Note)],
   notes |-> {Note}],
  [flat |-> FALSE, projects |-> [app |-> Copy(App, {RunRoot, App, UserApp})], notes |-> {}],
  [flat |-> TRUE, projects |-> [app |-> Copy(RunRoot, {RunRoot, User}), spec |-> Snapshot(User)],
   notes |-> {User}]}

MCNotesEnding == {<<Note, "spec">>, <<Note, "ec">>, <<User, "spec">>, <<User, "ec">>}

MCUnsafeIds == {".", "..", "User"}

Test(command, reason, covers) == [command |-> command, reason |-> reason, covers |-> covers]
Unit == Test("allowed", FALSE, {"C1"})

Phase(id, deps) ==
  [id |-> id, titled |-> TRUE, objective |-> TRUE, words |-> {}, tier |-> TRUE, minutes |-> 30,
   deps |-> deps, projects |-> <<"app">>, write |-> <<App>>, read |-> <<>>,
   criteria |-> <<[id |-> "C1", described |-> TRUE]>>,
   tests |-> <<<<Unit>>, <<>>, <<>>>>, none |-> <<FALSE, TRUE, TRUE>>]

Document(phases) ==
  [titled |-> TRUE, summary |-> TRUE, phases |-> phases,
   gates |-> <<[id |-> "G1", described |-> TRUE, deps |-> <<"P1">>]>>]

UpTo(S, n) == UNION {[1..k -> S] : k \in 0..n}

\* Dependencies in any order and number, two phases with one id, a phase nobody knows.
Graphs ==
  {Document(<<Phase("P1", d), Phase("P2", e), Phase(id, f)>>) :
     d \in UpTo({"P1", "P2", "P3"}, 2), e \in UpTo({"P1", "P2", "P3"}, 2), f \in UpTo({"P1", "P2", "P4"}, 1),
     id \in {"P2", "P3"}}

\* Four phases, for longer chains and a phase reached on two ways.
Diamonds ==
  {Document(<<Phase("P1", d), Phase("P2", e), Phase("P3", f), Phase("P4", g)>>) :
     d \in UpTo({"P2", "P4"}, 1), e \in UpTo({"P1", "P3"}, 1), f \in UpTo({"P1", "P2", "P4"}, 1),
     g \in UpTo({"P1", "P2", "P3"}, 2)}

\* Roots and projects, known, new, of notes and of the user.
Places ==
  {Document(<<[Phase("P1", <<>>) EXCEPT !.projects = p, !.write = w, !.read = r]>>) :
     p \in UpTo({"app", "lib", "spec", "ec", "User", "implementation"}, 2),
     w \in UpTo({Src, Lib, Note, RunRoot, Dot, Climb, Across, <<"lib">>, UserApp}, 2),
     r \in {<<>>, <<Note>>, <<UserApp>>, <<<<"user">>>>}}

Layer == UpTo({Test(c, FALSE, v) : c \in {"allowed", "denied"}, v \in {{}, {"C1"}, {"C2"}}}, 1)
          \cup {<<Test("allowed", FALSE, {"C1"}), Test("allowed", FALSE, {"C2"})>>,
                <<Test("outside", FALSE, {"C1"})>>, <<Test("none", FALSE, {})>>, <<Test("none", TRUE, {"C1"})>>,
                <<Test("allowed", TRUE, {"C1"})>>, <<Test("allowed", FALSE, {"C3"})>>}

Suites ==
  {Document(<<[Phase("P1", <<>>) EXCEPT !.criteria = c, !.tests = <<u, i, <<>>>>]>>) :
     c \in {<<>>, <<[id |-> "C1", described |-> TRUE]>>,
            <<[id |-> "C1", described |-> TRUE], [id |-> "C2", described |-> TRUE]>>},
     u \in Layer, i \in Layer}

Unfinished ==
  {[Document(<<Phase("P1", <<>>)>>) EXCEPT !.titled = t, !.summary = s, !.phases[1].tier = m, !.phases[1].minutes = n,
                                          !.phases[1].words = w, !.gates[1].described = g, !.gates[1].deps = d] :
     t \in BOOLEAN, s \in BOOLEAN, m \in BOOLEAN, n \in {0, 30}, w \in {{}, {"placeholder"}}, g \in BOOLEAN,
     d \in {<<"P1">>, <<"P9">>}}

\* Two phases at work in one project, or in two.
Pairs ==
  {Document(<<[Phase("P1", <<>>) EXCEPT !.write = w], [Phase("P2", d) EXCEPT !.projects = p, !.write = v]>>) :
     d \in UpTo({"P1"}, 1), p \in {<<"app">>, <<"lib">>}, w \in {<<App>>, <<Src>>}, v \in {<<App>>, <<Src>>, <<Lib>>}}

MCDocuments == Graphs \cup Diamonds \cup Places \cup Pairs \cup Suites \cup Unfinished
=============================================================================
