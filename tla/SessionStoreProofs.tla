------------------------- MODULE SessionStoreProofs -------------------------
(***************************************************************************)
(* Proofs about SessionAssembly, for any number of persisted and headless  *)
(* calls: what each step of a call may rely on, and that nothing leaks;    *)
(* and on top of them about SessionStore, for any number of Opens,         *)
(* listings, Closes and sessions.                                          *)
(***************************************************************************)
EXTENDS SessionStore, TLAPS

(* What a call holds that is managed by MCP: nothing where no server is named. *)
Served(c) == c \in Persisted /\ servers[c]
Manager(c) == IF Served(c) THEN {"manager"} ELSE {}
Attached(c) == IF Served(c) THEN {"manager", "adopter"} ELSE {}

(* What a call holds at each of its steps. *)
BuildsSets(c) ==
  /\ pc[c] \in {"idle", "checks", "planner"} => held[c] = {}
  /\ pc[c] = "builder" => held[c] = {"planner"}
  /\ pc[c] = "reviewer" => held[c] = {"planner", "builder"}
  /\ pc[c] = "mcp" => c \in Persisted /\ held[c] = ExecutorSets

BuildsSession(c) ==
  /\ pc[c] \in {"definitions", "review", "stores", "session"} =>
       held[c] = ExecutorSets \cup Manager(c)
  /\ pc[c] = "stores" => c \notin Persisted
  /\ pc[c] \in {"adapter", "attach"} =>
       held[c] = ExecutorSets \cup Manager(c) \cup {"session"}
  /\ pc[c] \in {"start", "adopt"} =>
       Served(c) /\ held[c] = ExecutorSets \cup {"manager", "session"}
  /\ pc[c] \in {"assembled", "live"} =>
       held[c] = ExecutorSets \cup Attached(c) \cup {"session"}

(* What is being given back goes in order: what consumes goes first. *)
GivesBack(c) ==
  /\ "session" \in Unclosed(c) => ExecutorSets \subseteq Unclosed(c)
  /\ "adopter" \in Unclosed(c) => "manager" \in Unclosed(c)
  /\ pc[c] = "closing" /\ "session" \in Unclosed(c) => Attached(c) \subseteq Unclosed(c)
  /\ pc[c] \in {"failed", "closed"} => Unclosed(c) = {}

(* What a cleanup has yet to close: an end of one of the cleanups of the code. *)
Plans ==
  {<<>>, <<"reviewer">>, <<"builder">>, <<"builder", "reviewer">>,
   <<"manager", "planner", "builder", "reviewer">>,
   AfterBuilder, AfterReviewer, CloseAccess, FailClosure, CloseOrder}

Elems(t) == {t[i] : i \in DOMAIN t}

Ending == {"failing", "failed", "closing", "closed"}

(* It has whatever is still open, and nothing whose Close was called before. *)
CleansUp(c) ==
  /\ pc[c] \notin Ending => faults[c] = {}
  /\ pc[c] \in {"failing", "closing"} =>
       /\ todo[c] \in Plans
       /\ Unclosed(c) \subseteq Elems(todo[c])
       /\ faults[c] \cap Elems(todo[c]) = {}

HeldInv(c) == BuildsSets(c) /\ BuildsSession(c) /\ GivesBack(c) /\ CleansUp(c)

(* The root lease is with the one session that is open over the backend, or was
   and could not be closed. *)
LeaseInv ==
  \A c \in Calls :
    /\ "session" \in Unclosed(c) => lease[Backend(c)] = c
    /\ lease[Backend(c)] = c => "session" \in held[c]

IInv == TypeOK /\ LeaseInv /\ \A c \in Calls : HeldInv(c)

-----------------------------------------------------------------------------
LEMMA PlanElems ==
  /\ Elems(<<>>) = {} /\ Elems(<<"reviewer">>) = {"reviewer"} /\ Elems(<<"builder">>) = {"builder"}
  /\ Elems(<<"builder", "reviewer">>) = {"builder", "reviewer"}
  /\ Elems(AfterBuilder) = {"planner"} /\ Elems(AfterReviewer) = {"planner", "builder"}
  /\ Elems(CloseAccess) = ExecutorSets
  /\ Elems(<<"manager", "planner", "builder", "reviewer">>) = ExecutorSets \cup {"manager"}
  /\ Elems(FailClosure) = ExecutorSets \cup {"manager", "adopter"}
  /\ Elems(CloseOrder) = Resources
<1>0. /\ 1..0 = {} /\ 1..1 = {1} /\ 1..2 = {1, 2} /\ 1..3 = {1, 2, 3} /\ 1..4 = {1, 2, 3, 4}
      /\ 1..5 = {1, 2, 3, 4, 5} /\ 1..6 = {1, 2, 3, 4, 5, 6}
  OBVIOUS
<1>1. Elems(<<>>) = {} /\ Elems(<<"reviewer">>) = {"reviewer"} /\ Elems(<<"builder">>) = {"builder"}
  BY <1>0 DEF Elems
<1>2. Elems(<<"builder", "reviewer">>) = {"builder", "reviewer"}
  BY <1>0 DEF Elems
<1>3. Elems(AfterBuilder) = {"planner"}
  BY <1>0 DEF Elems, AfterBuilder
<1>4. Elems(AfterReviewer) = {"planner", "builder"}
  BY <1>0 DEF Elems, AfterReviewer
<1>5. Elems(CloseAccess) = ExecutorSets
  BY <1>0 DEF Elems, CloseAccess, ExecutorSets
<1>6. Elems(<<"manager", "planner", "builder", "reviewer">>) = ExecutorSets \cup {"manager"}
  BY <1>0 DEF Elems, ExecutorSets
<1>7. Elems(FailClosure) = ExecutorSets \cup {"manager", "adopter"}
  <2>1. Elems(FailClosure) = {"adopter", "manager", "planner", "builder", "reviewer"}
    BY <1>0 DEF Elems, FailClosure
  <2> QED BY <2>1 DEF ExecutorSets
<1>8. Elems(CloseOrder) = Resources
  <2>1. Elems(CloseOrder) = {"session", "adopter", "manager", "planner", "builder", "reviewer"}
    BY <1>0 DEF Elems, CloseOrder
  <2> QED BY <2>1 DEF Resources, ExecutorSets
<1> QED BY <1>1, <1>2, <1>3, <1>4, <1>5, <1>6, <1>7, <1>8

LEMMA PlanTails ==
  /\ Tail(<<"reviewer">>) = <<>> /\ Tail(<<"builder">>) = <<>> /\ Tail(AfterBuilder) = <<>>
  /\ Tail(<<"builder", "reviewer">>) = <<"reviewer">>
  /\ Tail(AfterReviewer) = <<"builder">>
  /\ Tail(CloseAccess) = <<"builder", "reviewer">>
  /\ Tail(<<"manager", "planner", "builder", "reviewer">>) = CloseAccess
  /\ Tail(FailClosure) = <<"manager", "planner", "builder", "reviewer">>
  /\ Tail(CloseOrder) = FailClosure
BY DEF AfterBuilder, AfterReviewer, CloseAccess, FailClosure, CloseOrder

LEMMA PlanHeads ==
  /\ Head(<<"reviewer">>) = "reviewer" /\ Head(<<"builder">>) = "builder"
  /\ Head(AfterBuilder) = "planner" /\ Head(<<"builder", "reviewer">>) = "builder"
  /\ Head(AfterReviewer) = "planner" /\ Head(CloseAccess) = "planner"
  /\ Head(<<"manager", "planner", "builder", "reviewer">>) = "manager"
  /\ Head(FailClosure) = "adopter" /\ Head(CloseOrder) = "session"
BY DEF AfterBuilder, AfterReviewer, CloseAccess, FailClosure, CloseOrder

LEMMA OrderShape ==
  /\ DOMAIN CloseOrder = 1..6
  /\ Resources = {CloseOrder[i] : i \in 1..6}
  /\ CloseOrder[1] = "session" /\ CloseOrder[2] = "adopter" /\ CloseOrder[3] = "manager"
  /\ CloseOrder[4] = "planner" /\ CloseOrder[5] = "builder" /\ CloseOrder[6] = "reviewer"
  /\ \A i, j \in 1..6 : CloseOrder[i] = CloseOrder[j] => i = j
<1>1. DOMAIN CloseOrder = 1..6
  BY DEF CloseOrder
<1>2. /\ CloseOrder[1] = "session" /\ CloseOrder[2] = "adopter" /\ CloseOrder[3] = "manager"
      /\ CloseOrder[4] = "planner" /\ CloseOrder[5] = "builder" /\ CloseOrder[6] = "reviewer"
  BY DEF CloseOrder
<1>3. \A i \in 1..6 : i = 1 \/ i = 2 \/ i = 3 \/ i = 4 \/ i = 5 \/ i = 6
  OBVIOUS
<1>4. Resources = {CloseOrder[i] : i \in 1..6}
  BY <1>2, <1>3 DEF Resources, ExecutorSets
<1>5. \A i, j \in 1..6 : CloseOrder[i] = CloseOrder[j] => i = j
  BY <1>2, <1>3
<1> QED BY <1>1, <1>2, <1>4, <1>5

(* Every cleanup goes in the order of an agent's Close, and leaves out nothing
   but what it starts or ends with. *)
LEMMA PlanStep ==
  ASSUME NEW t \in Plans, t # <<>>
  PROVE  /\ Head(t) \in Resources /\ Tail(t) \in Plans
         /\ Elems(t) = {Head(t)} \cup Elems(Tail(t))
         /\ \A i, j \in 1..6 :
              CloseOrder[i] = Head(t) /\ CloseOrder[j] \in Elems(Tail(t)) => i < j
         /\ "session" \notin Elems(Tail(t))
         /\ "adopter" \in Elems(Tail(t)) => Head(t) = "session"
<1>1. \/ t \in {<<"reviewer">>, <<"builder">>, AfterBuilder}
      \/ t = <<"builder", "reviewer">> \/ t = AfterReviewer
      \/ t = CloseAccess
      \/ t = <<"manager", "planner", "builder", "reviewer">>
      \/ t = FailClosure \/ t = CloseOrder
  BY DEF Plans
<1>2. Tail(t) \in Plans
  BY <1>1, PlanTails DEF Plans
<1>3. Head(t) \in Resources
  BY <1>1, PlanHeads DEF Resources, ExecutorSets
<1>4. /\ "session" \notin Elems(Tail(t))
      /\ "adopter" \in Elems(Tail(t)) => Head(t) = "session"
  <2>1. CASE t \in {<<"reviewer">>, <<"builder">>, AfterBuilder}
    BY <2>1, PlanTails, PlanElems
  <2>2. CASE t = <<"builder", "reviewer">> \/ t = AfterReviewer
    <3>1. Elems(Tail(t)) \subseteq {"builder", "reviewer"}
      BY <2>2, PlanTails, PlanElems
    <3> QED BY <3>1
  <2>3. CASE t = CloseAccess \/ t = <<"manager", "planner", "builder", "reviewer">>
    BY <2>3, PlanTails, PlanElems DEF ExecutorSets
  <2>4. CASE t = FailClosure
    BY <2>4, PlanTails, PlanElems DEF ExecutorSets
  <2>5. CASE t = CloseOrder
    BY <2>5, PlanTails, PlanHeads, PlanElems DEF ExecutorSets
  <2> QED BY <1>1, <2>1, <2>2, <2>3, <2>4, <2>5
<1>5. Elems(t) = {Head(t)} \cup Elems(Tail(t))
  <2>1. CASE t = <<"reviewer">>
    BY <2>1, PlanTails, PlanHeads, PlanElems
  <2>2. CASE t = <<"builder">>
    BY <2>2, PlanTails, PlanHeads, PlanElems
  <2>3. CASE t = AfterBuilder
    BY <2>3, PlanTails, PlanHeads, PlanElems
  <2>4. CASE t = <<"builder", "reviewer">>
    BY <2>4, PlanTails, PlanHeads, PlanElems
  <2>5. CASE t = AfterReviewer
    BY <2>5, PlanTails, PlanHeads, PlanElems
  <2>6. CASE t = CloseAccess
    BY <2>6, PlanTails, PlanHeads, PlanElems DEF ExecutorSets
  <2>7. CASE t = <<"manager", "planner", "builder", "reviewer">>
    BY <2>7, PlanTails, PlanHeads, PlanElems DEF ExecutorSets
  <2>8. CASE t = FailClosure
    BY <2>8, PlanTails, PlanHeads, PlanElems DEF ExecutorSets
  <2>9. CASE t = CloseOrder
    BY <2>9, PlanTails, PlanHeads, PlanElems DEF ExecutorSets, Resources
  <2> QED BY <1>1, <2>1, <2>2, <2>3, <2>4, <2>5, <2>6, <2>7, <2>8, <2>9
<1>6. ASSUME NEW i \in 1..6, NEW j \in 1..6,
             CloseOrder[i] = Head(t), CloseOrder[j] \in Elems(Tail(t))
      PROVE  i < j
  <2>1. \A k \in 1..6 : k = 1 \/ k = 2 \/ k = 3 \/ k = 4 \/ k = 5 \/ k = 6
    OBVIOUS
  <2>2. CASE t \in {<<"reviewer">>, <<"builder">>, AfterBuilder}
    BY <1>6, <2>2, PlanTails, PlanElems
  <2>3. CASE t = <<"builder", "reviewer">> \/ t = AfterReviewer
    <3>1. CASE t = <<"builder", "reviewer">>
      <4>1. CloseOrder[i] = "builder" /\ CloseOrder[j] = "reviewer"
        BY <1>6, <3>1, PlanTails, PlanHeads, PlanElems
      <4> QED BY <2>1, <4>1, OrderShape
    <3>2. CASE t = AfterReviewer
      <4>1. CloseOrder[i] = "planner" /\ CloseOrder[j] = "builder"
        BY <1>6, <3>2, PlanTails, PlanHeads, PlanElems
      <4> QED BY <2>1, <4>1, OrderShape
    <3> QED BY <2>3, <3>1, <3>2
  <2>4. CASE t = CloseAccess
    <3>1. CloseOrder[i] = "planner" /\ CloseOrder[j] \in {"builder", "reviewer"}
      BY <1>6, <2>4, PlanTails, PlanHeads, PlanElems
    <3> QED BY <2>1, <3>1, OrderShape
  <2>5. CASE t = <<"manager", "planner", "builder", "reviewer">>
    <3>1. i = 3 /\ CloseOrder[j] \in {"planner", "builder", "reviewer"}
      BY <1>6, <2>1, <2>5, PlanTails, PlanHeads, PlanElems, OrderShape DEF ExecutorSets
    <3> QED BY <2>1, <3>1, OrderShape
  <2>6. CASE t = FailClosure
    <3>1. i = 2 /\ CloseOrder[j] \in {"manager", "planner", "builder", "reviewer"}
      BY <1>6, <2>1, <2>6, PlanTails, PlanHeads, PlanElems, OrderShape DEF ExecutorSets
    <3> QED BY <2>1, <3>1, OrderShape
  <2>7. CASE t = CloseOrder
    <3>1. i = 1 /\ CloseOrder[j] # "session"
      BY <1>6, <2>1, <2>7, PlanTails, PlanHeads, PlanElems, OrderShape DEF ExecutorSets
    <3> QED BY <2>1, <3>1, OrderShape
  <2> QED BY <1>1, <2>2, <2>3, <2>4, <2>5, <2>6, <2>7
<1> QED BY <1>2, <1>3, <1>4, <1>5, <1>6

LEMMA PlanTyped == Plans \subseteq Seq(Resources)
BY DEF Plans, AfterBuilder, AfterReviewer, CloseAccess, FailClosure, CloseOrder, Resources,
   ExecutorSets

-----------------------------------------------------------------------------
LEMMA AssemblyInitially == AssemblyInit => IInv
<1> SUFFICES ASSUME AssemblyInit PROVE IInv
  OBVIOUS
<1>1. TypeOK
  BY AssemblyAssumption DEF AssemblyInit, TypeOK, Steps
<1>2. LeaseInv
  BY AssemblyAssumption DEF AssemblyInit, LeaseInv, Backend, Unclosed
<1>3. \A c \in Calls : HeldInv(c)
  BY DEF AssemblyInit, HeldInv, BuildsSets, BuildsSession, GivesBack, CleansUp, Unclosed, Ending
<1> QED BY <1>1, <1>2, <1>3 DEF IInv

(* A step of one call leaves what the others hold to them. *)
LEMMA OthersKeep ==
  ASSUME NEW c \in Calls, HeldInv(c), servers' = servers,
         pc'[c] = pc[c], held'[c] = held[c], todo'[c] = todo[c], faults'[c] = faults[c]
  PROVE  HeldInv(c)'
<1>1. BuildsSets(c)' /\ BuildsSession(c)'
  BY DEF HeldInv, BuildsSets, BuildsSession, Served, Manager, Attached
<1>2. GivesBack(c)' /\ CleansUp(c)'
  BY DEF HeldInv, GivesBack, CleansUp, Unclosed, Served, Attached
<1> QED BY <1>1, <1>2 DEF HeldInv

(* Before a call ends it has called no Close. *)
LEMMA NothingClosed ==
  ASSUME NEW c \in Calls, HeldInv(c), pc[c] \notin Ending
  PROVE  faults[c] = {} /\ Unclosed(c) = held[c]
BY DEF HeldInv, CleansUp, Unclosed

(* What a step keeps, for a call that goes on. *)
LEMMA GoesOn ==
  ASSUME NEW c \in Calls, pc'[c] \notin Ending, faults'[c] = {}, (BuildsSets(c) /\ BuildsSession(c))',
         /\ "session" \in held'[c] => ExecutorSets \subseteq held'[c]
         /\ "adopter" \in held'[c] => "manager" \in held'[c]
  PROVE  HeldInv(c)'
BY DEF HeldInv, GivesBack, CleansUp, Unclosed, Ending

(* The types of a step. *)
LEMMA PassTyped ==
  ASSUME TypeOK, NEW c \in Calls, NEW from, NEW to \in Steps, Pass(c, from, to)
  PROVE  TypeOK'
BY DEF TypeOK, Pass, Go, Keep

LEMMA OpenTyped ==
  ASSUME TypeOK, NEW c \in Calls, NEW from, NEW r \in Resources, NEW to \in Steps,
         Open(c, from, r, to)
  PROVE  TypeOK'
BY DEF TypeOK, Open, Go, Keep

(* A step that opens and closes no session leaves the lease alone. *)
LEMMA LeaseKept ==
  ASSUME LeaseInv, lease' = lease,
         \A c \in Calls : /\ "session" \in Unclosed(c)' => "session" \in Unclosed(c)
                          /\ "session" \in held[c] => "session" \in held'[c]
  PROVE  LeaseInv'
BY DEF LeaseInv, Backend

(* What a step does to its own call. *)
LEMMA PassDoes ==
  ASSUME TypeOK, NEW c \in Calls, NEW from, NEW to, Pass(c, from, to)
  PROVE  /\ pc[c] = from /\ pc'[c] = to
         /\ UNCHANGED <<held, todo, servers, lease, faults, report>>
         /\ \A d \in Calls \ {c} : pc'[d] = pc[d]
BY DEF TypeOK, Pass, At, Go, Keep

LEMMA OpenDoes ==
  ASSUME TypeOK, NEW c \in Calls, NEW from, NEW r, NEW to, Open(c, from, r, to)
  PROVE  /\ pc[c] = from /\ pc'[c] = to /\ held'[c] = held[c] \cup {r}
         /\ UNCHANGED <<todo, servers, lease, faults, report>>
         /\ \A d \in Calls \ {c} : pc'[d] = pc[d] /\ held'[d] = held[d]
BY DEF TypeOK, Open, At, Go, Keep

(* A step of a call keeps the invariant if it keeps what that call holds. *)
LEMMA PassKeeps ==
  ASSUME IInv, NEW c \in Calls, NEW from, NEW to \in Steps, Pass(c, from, to), HeldInv(c)'
  PROVE  IInv'
<1>1. /\ UNCHANGED <<held, todo, servers, lease, faults>>
      /\ \A d \in Calls \ {c} : pc'[d] = pc[d]
  BY PassDoes DEF IInv
<1>2. TypeOK'
  BY PassTyped DEF IInv
<1>3. LeaseInv'
  BY <1>1, LeaseKept DEF IInv, Unclosed
<1>4. \A d \in Calls : HeldInv(d)'
  BY <1>1, OthersKeep DEF IInv
<1> QED BY <1>2, <1>3, <1>4 DEF IInv

(* A call that fails leaves everything it holds to its cleanup. *)
LEMMA FailKeeps ==
  ASSUME IInv, NEW c \in Calls, NEW from \in Steps \ Ending, NEW cleanup \in Plans,
         Fail(c, from, cleanup), held[c] \subseteq Elems(cleanup)
  PROVE  IInv'
<1>0. TypeOK /\ HeldInv(c)
  BY DEF IInv
<1>1. /\ pc[c] = from /\ pc' = [pc EXCEPT ![c] = "failing"]
      /\ todo' = [todo EXCEPT ![c] = cleanup]
      /\ UNCHANGED <<held, servers, lease, shared, faults, report>>
  BY DEF Fail, At, Go, Keep
<1>2. pc'[c] = "failing" /\ todo'[c] = cleanup
      /\ \A d \in Calls \ {c} : pc'[d] = pc[d] /\ todo'[d] = todo[d]
  BY <1>0, <1>1 DEF TypeOK
<1>3. TypeOK'
  BY <1>0, <1>1, PlanTyped DEF TypeOK, Steps
<1>4. LeaseInv'
  BY <1>1, LeaseKept DEF IInv, Unclosed
<1>5. faults[c] = {}
  BY <1>0, <1>1, NothingClosed
<1>6. HeldInv(c)'
  <2>1. (BuildsSets(c) /\ BuildsSession(c))'
    BY <1>2 DEF BuildsSets, BuildsSession
  <2>2. GivesBack(c)'
    BY <1>0, <1>1, <1>2 DEF HeldInv, GivesBack, Unclosed
  <2>3. CleansUp(c)'
    BY <1>1, <1>2, <1>5 DEF CleansUp, Unclosed, Ending
  <2> QED BY <2>1, <2>2, <2>3 DEF HeldInv
<1>7. \A d \in Calls : HeldInv(d)'
  BY <1>1, <1>2, <1>6, OthersKeep DEF IInv
<1> QED BY <1>3, <1>4, <1>7 DEF IInv

LEMMA OpenKeeps ==
  ASSUME IInv, NEW c \in Calls, NEW from, NEW r \in Resources \ {"session"}, NEW to \in Steps,
         Open(c, from, r, to), HeldInv(c)'
  PROVE  IInv'
<1>1. /\ UNCHANGED <<todo, servers, lease, faults>>
      /\ held'[c] = held[c] \cup {r}
      /\ \A d \in Calls \ {c} : pc'[d] = pc[d] /\ held'[d] = held[d]
  BY OpenDoes DEF IInv
<1>2. TypeOK'
  BY OpenTyped DEF IInv
<1>3. LeaseInv'
  BY <1>1, LeaseKept DEF IInv, Unclosed
<1>4. \A d \in Calls : HeldInv(d)'
  BY <1>1, OthersKeep DEF IInv
<1> QED BY <1>2, <1>3, <1>4 DEF IInv

-----------------------------------------------------------------------------
(* The steps before there is a session. *)
LEMMA SetsKeep ==
  ASSUME IInv, NEW c \in Calls,
         \/ Begin(c) \/ AccessChecks(c) \/ BuildPlannerSet(c) \/ BuildBuilderSet(c)
         \/ BuildReviewerSet(c)
  PROVE  IInv'
<1>0. TypeOK /\ HeldInv(c)
  BY DEF IInv
<1>1. ASSUME NEW from \in {"idle", "checks"}, NEW to \in {"checks", "planner"}, Pass(c, from, to)
      PROVE  IInv'
  <2>1. pc'[c] = to /\ held'[c] = {} /\ faults'[c] = {}
    BY <1>0, <1>1, PassDoes, NothingClosed DEF HeldInv, BuildsSets, Ending
  <2>2. HeldInv(c)'
    BY <2>1, GoesOn DEF BuildsSets, BuildsSession, Ending
  <2> QED BY <1>1, <2>2, PassKeeps DEF Steps
<1>2. CASE Open(c, "planner", "planner", "builder")
  <2>1. pc'[c] = "builder" /\ held'[c] = {"planner"} /\ faults'[c] = {}
    BY <1>0, <1>2, OpenDoes, NothingClosed DEF HeldInv, BuildsSets, Ending
  <2>2. HeldInv(c)'
    BY <2>1, GoesOn DEF BuildsSets, BuildsSession, Ending
  <2> QED BY <1>2, <2>2, OpenKeeps DEF Steps, Resources, ExecutorSets
<1>3. CASE Open(c, "builder", "builder", "reviewer")
  <2>1. pc'[c] = "reviewer" /\ held'[c] = {"planner", "builder"} /\ faults'[c] = {}
    BY <1>0, <1>3, OpenDoes, NothingClosed DEF HeldInv, BuildsSets, Ending
  <2>2. HeldInv(c)'
    BY <2>1, GoesOn DEF BuildsSets, BuildsSession, Ending
  <2> QED BY <1>3, <2>2, OpenKeeps DEF Steps, Resources, ExecutorSets
<1>4. CASE Open(c, "reviewer", "reviewer", IF c \in Persisted THEN "mcp" ELSE "definitions")
  <2> DEFINE to == IF c \in Persisted THEN "mcp" ELSE "definitions"
  <2>1. held'[c] = ExecutorSets /\ pc'[c] = to /\ servers' = servers /\ faults'[c] = {}
    BY <1>0, <1>4, OpenDoes, NothingClosed DEF HeldInv, BuildsSets, ExecutorSets, Ending
  <2>2. BuildsSets(c)' /\ BuildsSession(c)'
    BY <2>1 DEF BuildsSets, BuildsSession, Manager, Served
  <2>3. HeldInv(c)'
    BY <2>1, <2>2, GoesOn DEF Ending, ExecutorSets
  <2>4. to \in Steps /\ "reviewer" \in Resources \ {"session"}
    BY DEF Steps, Resources, ExecutorSets
  <2> QED BY <1>4, <2>3, <2>4, OpenKeeps
<1>5. CASE Fail(c, "checks", <<>>) \/ Fail(c, "planner", <<>>)
  <2>1. held[c] = {} /\ <<>> \in Plans /\ {"checks", "planner"} \subseteq Steps \ Ending
    BY <1>0, <1>5 DEF Fail, At, HeldInv, BuildsSets, Plans, Steps, Ending
  <2> QED BY <1>5, <2>1, FailKeeps
<1>6. CASE Fail(c, "builder", AfterBuilder)
  <2>1. held[c] = {"planner"} /\ AfterBuilder \in Plans /\ "builder" \in Steps \ Ending
    BY <1>0, <1>6 DEF Fail, At, HeldInv, BuildsSets, Plans, Steps, Ending
  <2> QED BY <1>6, <2>1, PlanElems, FailKeeps
<1>7. CASE Fail(c, "reviewer", AfterReviewer)
  <2>1. held[c] = {"planner", "builder"} /\ AfterReviewer \in Plans /\ "reviewer" \in Steps \ Ending
    BY <1>0, <1>7 DEF Fail, At, HeldInv, BuildsSets, Plans, Steps, Ending
  <2> QED BY <1>7, <2>1, PlanElems, FailKeeps
<1> QED
  BY <1>1, <1>2, <1>3, <1>4, <1>5, <1>6, <1>7 DEF Begin, AccessChecks, BuildPlannerSet,
     BuildBuilderSet, BuildReviewerSet

LEMMA CleanupHolds ==
  ASSUME NEW c \in Calls
  PROVE  /\ AssemblyCleanup(c) \in Plans
         /\ ExecutorSets \cup Manager(c) \subseteq Elems(AssemblyCleanup(c))
         /\ "session" \notin Elems(AssemblyCleanup(c))
<1>1. CASE c \in Persisted
  BY <1>1, PlanElems DEF AssemblyCleanup, Plans, Manager, ExecutorSets
<1>2. CASE c \notin Persisted
  BY <1>2, PlanElems DEF AssemblyCleanup, Plans, Manager, Served, ExecutorSets
<1> QED BY <1>1, <1>2

(* The manager, the loops and the review; then the store of a headless call. *)
LEMMA DefinitionsKeep ==
  ASSUME IInv, NEW c \in Calls,
         NewMCPAssembly(c) \/ SwarmDefinitions(c) \/ PermissionReview(c)
  PROVE  IInv'
<1>0. TypeOK /\ HeldInv(c)
  BY DEF IInv
<1>1. CASE ~servers[c] /\ Pass(c, "mcp", "definitions")
  <2>1. held'[c] = ExecutorSets /\ pc'[c] = "definitions" /\ servers' = servers /\ faults'[c] = {}
    BY <1>0, <1>1, PassDoes, NothingClosed DEF HeldInv, BuildsSets, Ending
  <2>2. BuildsSets(c)' /\ BuildsSession(c)'
    BY <1>1, <2>1 DEF BuildsSets, BuildsSession, Manager, Served
  <2>3. HeldInv(c)'
    BY <2>1, <2>2, GoesOn DEF Ending, ExecutorSets
  <2> QED BY <1>1, <2>3, PassKeeps DEF Steps
<1>2. CASE servers[c] /\ Open(c, "mcp", "manager", "definitions")
  <2>1. /\ held'[c] = ExecutorSets \cup {"manager"} /\ pc'[c] = "definitions"
        /\ c \in Persisted /\ servers' = servers /\ faults'[c] = {}
    BY <1>0, <1>2, OpenDoes, NothingClosed DEF HeldInv, BuildsSets, Ending
  <2>2. BuildsSets(c)' /\ BuildsSession(c)'
    BY <1>2, <2>1 DEF BuildsSets, BuildsSession, Manager, Served
  <2>3. HeldInv(c)'
    BY <2>1, <2>2, GoesOn DEF Ending, ExecutorSets
  <2> QED BY <1>2, <2>3, OpenKeeps DEF Steps, Resources
<1>3. ASSUME NEW from \in {"definitions", "review"}, NEW to \in {"review", "stores", "session"},
             c \in Persisted => to # "stores", Pass(c, from, to)
      PROVE  IInv'
  <2>1. /\ held'[c] = ExecutorSets \cup Manager(c) /\ pc'[c] = to /\ servers' = servers
        /\ faults'[c] = {}
    BY <1>0, <1>3, PassDoes, NothingClosed DEF HeldInv, BuildsSession, Ending
  <2>2. BuildsSets(c)' /\ BuildsSession(c)'
    BY <1>3, <2>1 DEF BuildsSets, BuildsSession, Manager, Served
  <2>3. HeldInv(c)'
    BY <2>1, <2>2, GoesOn DEF Ending, Manager, ExecutorSets
  <2> QED BY <1>3, <2>3, PassKeeps DEF Steps
<1>4. CASE Fail(c, "mcp", CloseAccess)
  <2>1. held[c] = ExecutorSets /\ CloseAccess \in Plans /\ "mcp" \in Steps \ Ending
    BY <1>0, <1>4 DEF Fail, At, HeldInv, BuildsSets, Plans, Steps, Ending
  <2> QED BY <1>4, <2>1, PlanElems, FailKeeps
<1>5. CASE Fail(c, "definitions", AssemblyCleanup(c)) \/ Fail(c, "review", AssemblyCleanup(c))
  <2>1. /\ held[c] = ExecutorSets \cup Manager(c)
        /\ {"definitions", "review"} \subseteq Steps \ Ending
    BY <1>0, <1>5 DEF Fail, At, HeldInv, BuildsSession, Steps, Ending
  <2> QED BY <1>5, <2>1, CleanupHolds, FailKeeps
<1> QED
  BY <1>1, <1>2, <1>3, <1>4, <1>5 DEF NewMCPAssembly, SwarmDefinitions, PermissionReview

LEMMA HeadlessStoresKeep ==
  ASSUME IInv, NEW c \in Calls, HeadlessStores(c)
  PROVE  IInv'
<1>0. TypeOK /\ HeldInv(c)
  BY DEF IInv
<1>1. /\ pc[c] = "stores" /\ UNCHANGED <<held, servers, lease, faults, report>>
      /\ shared' \in {"unopened", "open", "failed"}
      /\ \/ pc' = [pc EXCEPT ![c] = "session"] /\ todo' = todo
         \/ pc' = [pc EXCEPT ![c] = "failing"] /\ todo' = [todo EXCEPT ![c] = CloseAccess]
  BY <1>0 DEF HeadlessStores, At, Go, TypeOK
<1>2. /\ held[c] = ExecutorSets /\ faults[c] = {} /\ CloseAccess \in Plans
      /\ Elems(CloseAccess) = ExecutorSets /\ c \notin Persisted
  <2>1. c \notin Persisted
    BY <1>0, <1>1 DEF HeldInv, BuildsSession
  <2>2. held[c] = ExecutorSets \cup Manager(c) /\ faults[c] = {}
    BY <1>0, <1>1, NothingClosed DEF HeldInv, BuildsSession, Ending
  <2> QED BY <2>1, <2>2, PlanElems DEF Manager, Served, Plans
<1>3. TypeOK'
  BY <1>0, <1>1, <1>2, PlanTyped DEF TypeOK, Steps
<1>4. LeaseInv'
  BY <1>1, LeaseKept DEF IInv, Unclosed
<1>5. HeldInv(c)'
  <2>1. CASE pc' = [pc EXCEPT ![c] = "session"] /\ todo' = todo
    <3>1. pc'[c] = "session" /\ held'[c] = ExecutorSets /\ faults'[c] = {}
      BY <1>0, <1>1, <1>2, <2>1 DEF TypeOK
    <3>2. BuildsSets(c)' /\ BuildsSession(c)'
      BY <1>2, <3>1 DEF BuildsSets, BuildsSession, Manager, Served
    <3> QED BY <3>1, <3>2, GoesOn DEF Ending, ExecutorSets
  <2>2. CASE pc' = [pc EXCEPT ![c] = "failing"] /\ todo' = [todo EXCEPT ![c] = CloseAccess]
    <3>1. pc'[c] = "failing" /\ todo'[c] = CloseAccess /\ held'[c] = ExecutorSets /\ faults'[c] = {}
      BY <1>0, <1>1, <1>2, <2>2 DEF TypeOK
    <3>2. BuildsSets(c)' /\ BuildsSession(c)'
      BY <3>1 DEF BuildsSets, BuildsSession
    <3>3. GivesBack(c)' /\ CleansUp(c)'
      BY <1>2, <3>1 DEF GivesBack, CleansUp, Unclosed, Ending, ExecutorSets
    <3> QED BY <3>2, <3>3 DEF HeldInv
  <2> QED BY <1>1, <2>1, <2>2
<1>6. \A d \in Calls \ {c} : pc'[d] = pc[d] /\ todo'[d] = todo[d]
  BY <1>0, <1>1 DEF TypeOK
<1>7. \A d \in Calls : HeldInv(d)'
  BY <1>1, <1>5, <1>6, OthersKeep DEF IInv
<1> QED BY <1>3, <1>4, <1>7 DEF IInv

(* The session, with its root lease, its adapter and the MCP attachment. *)
LEMMA OpenSessionKeeps ==
  ASSUME IInv, NEW c \in Calls, OpenSession(c)
  PROVE  IInv'
<1>0. TypeOK /\ HeldInv(c)
  BY DEF IInv
<1>1. CASE Fail(c, "session", AssemblyCleanup(c))
  <2>1. held[c] = ExecutorSets \cup Manager(c) /\ "session" \in Steps \ Ending
    BY <1>0, <1>1 DEF Fail, At, HeldInv, BuildsSession, Steps, Ending
  <2> QED BY <1>1, <2>1, CleanupHolds, FailKeeps
<1>2. CASE ~Fail(c, "session", AssemblyCleanup(c))
  <2>1. /\ pc[c] = "session" /\ lease[Backend(c)] = None
        /\ pc' = [pc EXCEPT ![c] = "adapter"]
        /\ held' = [held EXCEPT ![c] = @ \cup {"session"}]
        /\ lease' = [lease EXCEPT ![Backend(c)] = c]
        /\ UNCHANGED <<todo, servers, shared, faults, report>>
    BY <1>2 DEF OpenSession, At, Go, Keep
  <2>2. TypeOK'
    BY <1>0, <2>1 DEF TypeOK, Steps, Resources
  <2>3. /\ pc'[c] = "adapter" /\ held'[c] = held[c] \cup {"session"}
        /\ lease'[Backend(c)] = c
        /\ \A d \in Calls \ {c} : pc'[d] = pc[d] /\ held'[d] = held[d]
        /\ \A d \in Calls : Backend(d) # Backend(c) => lease'[Backend(d)] = lease[Backend(d)]
    BY <1>0, <2>1 DEF TypeOK, Backend
  <2>4. LeaseInv'
    <3>1. \A d \in Calls : Backend(d)' = Backend(d)
      BY DEF Backend
    <3>2. ASSUME NEW d \in Calls
          PROVE  /\ "session" \in held'[d] \ faults'[d] => lease'[Backend(d)] = d
                 /\ lease'[Backend(d)] = d => "session" \in held'[d]
      <4>0. /\ "session" \in held[d] \ faults[d] => lease[Backend(d)] = d
            /\ lease[Backend(d)] = d => "session" \in held[d]
        BY DEF IInv, LeaseInv, Unclosed
      <4>1. CASE d = c
        BY <4>1, <2>3
      <4>2. CASE d # c /\ Backend(d) = Backend(c)
        BY <4>0, <4>2, <2>1, <2>3, AssemblyAssumption
      <4>3. CASE d # c /\ Backend(d) # Backend(c)
        BY <4>0, <4>3, <2>1, <2>3
      <4> QED BY <4>1, <4>2, <4>3
    <3> QED BY <3>1, <3>2 DEF LeaseInv, Unclosed
  <2>5. HeldInv(c)'
    <3>1. held'[c] = ExecutorSets \cup Manager(c) \cup {"session"} /\ faults'[c] = {}
      BY <1>0, <2>1, <2>3, NothingClosed DEF HeldInv, BuildsSession, Ending
    <3>2. BuildsSets(c)' /\ BuildsSession(c)'
      BY <2>1, <2>3, <3>1 DEF BuildsSets, BuildsSession, Manager, Served
    <3> QED BY <2>3, <3>1, <3>2, GoesOn DEF Ending, Manager, ExecutorSets
  <2>6. \A d \in Calls : HeldInv(d)'
    BY <2>1, <2>3, <2>5, OthersKeep DEF IInv
  <2> QED BY <2>2, <2>4, <2>6 DEF IInv
<1> QED BY <1>1, <1>2

(* A Close whose session is gone, or still there but given up, leaves the lease
   to nobody or to that session: nobody else had it. *)
LEMMA LeaseFreed ==
  ASSUME TypeOK, LeaseInv, NEW c \in Calls, "session" \in Unclosed(c),
         "session" \notin Unclosed(c)',
         \A d \in Calls \ {c} : held'[d] = held[d] /\ faults'[d] = faults[d],
         \/ lease' = [lease EXCEPT ![Backend(c)] = None]
         \/ lease' = lease /\ held' = held
  PROVE  LeaseInv'
<1>1. \A d \in Calls : Backend(d)' = Backend(d) /\ Backend(d) \in {"disk", "memory"}
  BY DEF Backend
<1>2. lease[Backend(c)] = c
  BY DEF LeaseInv
<1>3. ASSUME NEW d \in Calls
      PROVE  /\ "session" \in Unclosed(d)' => lease'[Backend(d)] = d
             /\ lease'[Backend(d)] = d => "session" \in held'[d]
  <2>0. /\ "session" \in Unclosed(d) => lease[Backend(d)] = d
        /\ lease[Backend(d)] = d => "session" \in held[d]
    BY DEF LeaseInv
  <2>1. CASE d = c
    BY <2>0, <2>1, <1>1, AssemblyAssumption DEF TypeOK
  <2>4. d # c => Unclosed(d)' = Unclosed(d)
    BY DEF Unclosed
  <2>2. CASE d # c /\ Backend(d) = Backend(c)
    <3>1. "session" \notin Unclosed(d)
      BY <2>0, <2>2, <1>2
    <3>2. lease'[Backend(d)] \in {None, c}
      BY <2>2, <1>1, <1>2 DEF TypeOK
    <3> QED BY <2>2, <2>4, <3>1, <3>2, AssemblyAssumption
  <2>3. CASE d # c /\ Backend(d) # Backend(c)
    <3>1. lease'[Backend(d)] = lease[Backend(d)]
      BY <2>3, <1>1 DEF TypeOK
    <3> QED BY <2>0, <2>3, <2>4, <3>1
  <2> QED BY <2>1, <2>2, <2>3
<1> QED BY <1>1, <1>3 DEF LeaseInv

(* What r's Close does, for an r that is open and was not closed before. *)
LEMMA CloseDoes ==
  ASSUME TypeOK, LeaseInv, NEW c \in Calls, NEW r \in Unclosed(c), Closes(c, r)
  PROVE  /\ Unclosed(c)' = Unclosed(c) \ {r}
         /\ held'[c] \subseteq held[c] /\ faults'[c] \subseteq faults[c] \cup {r}
         /\ \A d \in Calls \ {c} : held'[d] = held[d] /\ faults'[d] = faults[d]
         /\ held' \in [Calls -> SUBSET Resources] /\ faults' \in [Calls -> SUBSET Resources]
         /\ lease' \in [{"disk", "memory"} -> Calls \cup {None}]
         /\ LeaseInv'
<1>1. r \in held[c] /\ r \notin faults[c] /\ r \in Resources
  BY DEF Unclosed, TypeOK
<1>2. \/ held' = [held EXCEPT ![c] = @ \ {r}] /\ faults' = faults
      \/ held' = held /\ faults' = [faults EXCEPT ![c] = @ \cup {r}]
  BY DEF Closes
<1>3. \/ lease' = lease /\ (r # "session" \/ held' = held)
      \/ r = "session" /\ lease' = [lease EXCEPT ![Backend(c)] = None]
  BY DEF Closes
<1>4. /\ Unclosed(c)' = Unclosed(c) \ {r}
      /\ held'[c] \subseteq held[c] /\ faults'[c] \subseteq faults[c] \cup {r}
      /\ \A d \in Calls \ {c} : held'[d] = held[d] /\ faults'[d] = faults[d]
      /\ held' \in [Calls -> SUBSET Resources] /\ faults' \in [Calls -> SUBSET Resources]
  <2>1. CASE held' = [held EXCEPT ![c] = @ \ {r}] /\ faults' = faults
    <3>1. held'[c] = held[c] \ {r} /\ \A d \in Calls \ {c} : held'[d] = held[d]
      BY <2>1 DEF TypeOK
    <3>2. held' \in [Calls -> SUBSET Resources]
      BY <2>1 DEF TypeOK
    <3> QED BY <2>1, <3>1, <3>2 DEF TypeOK, Unclosed
  <2>2. CASE held' = held /\ faults' = [faults EXCEPT ![c] = @ \cup {r}]
    <3>1. faults'[c] = faults[c] \cup {r} /\ \A d \in Calls \ {c} : faults'[d] = faults[d]
      BY <2>2 DEF TypeOK
    <3>2. faults' \in [Calls -> SUBSET Resources]
      BY <1>1, <2>2 DEF TypeOK
    <3> QED BY <2>2, <3>1, <3>2 DEF TypeOK, Unclosed
  <2> QED BY <1>2, <2>1, <2>2
<1>5. lease' \in [{"disk", "memory"} -> Calls \cup {None}]
  BY <1>3 DEF TypeOK
<1>6. LeaseInv'
  <2>1. CASE r = "session"
    BY <1>3, <1>4, <2>1, LeaseFreed
  <2>2. CASE r # "session"
    <3>1. lease' = lease
      BY <1>3, <2>2
    <3>2. "session" \in held[c] => "session" \in held'[c]
      BY <1>2, <2>2 DEF TypeOK
    <3>3. \A d \in Calls : /\ "session" \in Unclosed(d)' => "session" \in Unclosed(d)
                           /\ "session" \in held[d] => "session" \in held'[d]
      BY <1>4, <3>2 DEF Unclosed
    <3> QED BY <3>1, <3>3, LeaseKept
  <2> QED BY <2>1, <2>2
<1> QED BY <1>4, <1>5, <1>6

LEMMA WrapAdapterKeeps ==
  ASSUME IInv, NEW c \in Calls, WrapAdapter(c)
  PROVE  IInv'
<1>0. TypeOK /\ HeldInv(c) /\ LeaseInv
  BY DEF IInv
<1>1. CASE Pass(c, "adapter", IF c \in Persisted THEN "attach" ELSE "assembled")
  <2> DEFINE to == IF c \in Persisted THEN "attach" ELSE "assembled"
  <2>1. /\ held'[c] = ExecutorSets \cup Manager(c) \cup {"session"} /\ pc'[c] = to
        /\ servers' = servers /\ faults'[c] = {}
    BY <1>0, <1>1, PassDoes, NothingClosed DEF HeldInv, BuildsSession, Ending
  <2>2. BuildsSets(c)' /\ BuildsSession(c)'
    BY <2>1 DEF BuildsSets, BuildsSession, Manager, Attached, Served
  <2>3. HeldInv(c)'
    BY <2>1, <2>2, GoesOn DEF Ending, Manager, ExecutorSets
  <2>4. to \in Steps
    BY DEF Steps
  <2> QED BY <1>1, <2>3, <2>4, PassKeeps
<1>2. CASE ~Pass(c, "adapter", IF c \in Persisted THEN "attach" ELSE "assembled")
  <2>1. /\ pc[c] = "adapter"
        /\ pc' = [pc EXCEPT ![c] = "failing"]
        /\ todo' = [todo EXCEPT ![c] = AssemblyCleanup(c)]
        /\ Closes(c, "session")
        /\ UNCHANGED <<servers, shared, report>>
    BY <1>2 DEF WrapAdapter, At, Go
  <2>2. /\ faults[c] = {} /\ held[c] = ExecutorSets \cup Manager(c) \cup {"session"}
        /\ Unclosed(c) = held[c]
    BY <1>0, <2>1, NothingClosed DEF HeldInv, BuildsSession, Ending
  <2>3. /\ Unclosed(c)' = Unclosed(c) \ {"session"} /\ faults'[c] \subseteq {"session"}
        /\ \A d \in Calls \ {c} : held'[d] = held[d] /\ faults'[d] = faults[d]
        /\ held' \in [Calls -> SUBSET Resources] /\ faults' \in [Calls -> SUBSET Resources]
        /\ lease' \in [{"disk", "memory"} -> Calls \cup {None}]
        /\ LeaseInv'
    BY <1>0, <2>1, <2>2, CloseDoes
  <2>4. /\ pc'[c] = "failing" /\ todo'[c] = AssemblyCleanup(c)
        /\ \A d \in Calls \ {c} : pc'[d] = pc[d] /\ todo'[d] = todo[d]
    BY <1>0, <2>1 DEF TypeOK
  <2>5. TypeOK'
    <3>1. pc' \in [Calls -> Steps] /\ todo' \in [Calls -> Seq(Resources)]
      BY <1>0, <2>1, CleanupHolds, PlanTyped DEF TypeOK, Steps
    <3> QED BY <1>0, <2>1, <2>3, <3>1 DEF TypeOK
  <2>6. HeldInv(c)'
    <3>1. BuildsSets(c)' /\ BuildsSession(c)'
      BY <2>4 DEF BuildsSets, BuildsSession
    <3>2. Unclosed(c)' = ExecutorSets \cup Manager(c)
      BY <2>2, <2>3 DEF Manager, ExecutorSets
    <3>3. GivesBack(c)'
      BY <2>4, <3>2 DEF GivesBack, Manager, ExecutorSets
    <3>4. CleansUp(c)'
      BY <2>3, <2>4, <3>2, CleanupHolds DEF CleansUp, Ending
    <3> QED BY <3>1, <3>3, <3>4 DEF HeldInv
  <2>7. \A d \in Calls : HeldInv(d)'
    BY <2>1, <2>3, <2>4, <2>6, OthersKeep DEF IInv
  <2> QED BY <2>3, <2>5, <2>7 DEF IInv
<1> QED BY <1>1, <1>2

LEMMA AttachKeeps ==
  ASSUME IInv, NEW c \in Calls, AttachBind(c) \/ AttachStart(c) \/ AttachAdopt(c)
  PROVE  IInv'
<1>0. TypeOK /\ HeldInv(c)
  BY DEF IInv
<1>1. CASE "manager" \notin held[c] /\ Pass(c, "attach", "assembled")
  <2>1. ~Served(c) /\ held'[c] = ExecutorSets \cup {"session"} /\ pc'[c] = "assembled"
        /\ servers' = servers /\ faults'[c] = {}
    BY <1>0, <1>1, PassDoes, NothingClosed DEF HeldInv, BuildsSession, Manager, Ending
  <2>2. BuildsSets(c)' /\ BuildsSession(c)'
    BY <2>1 DEF BuildsSets, BuildsSession, Attached, Served
  <2>3. HeldInv(c)'
    BY <2>1, <2>2, GoesOn DEF Ending, ExecutorSets
  <2> QED BY <1>1, <2>3, PassKeeps DEF Steps
<1>2. CASE "manager" \in held[c] /\ Pass(c, "attach", "start")
  <2>1. Served(c) /\ held'[c] = ExecutorSets \cup {"manager", "session"} /\ pc'[c] = "start"
        /\ servers' = servers /\ faults'[c] = {}
    BY <1>0, <1>2, PassDoes, NothingClosed DEF HeldInv, BuildsSession, Manager, ExecutorSets, Ending
  <2>2. BuildsSets(c)' /\ BuildsSession(c)'
    BY <2>1 DEF BuildsSets, BuildsSession, Served
  <2>3. HeldInv(c)'
    BY <2>1, <2>2, GoesOn DEF Ending, ExecutorSets
  <2> QED BY <1>2, <2>3, PassKeeps DEF Steps
<1>3. CASE Pass(c, "start", "adopt")
  <2>1. Served(c) /\ held'[c] = ExecutorSets \cup {"manager", "session"} /\ pc'[c] = "adopt"
        /\ servers' = servers /\ faults'[c] = {}
    BY <1>0, <1>3, PassDoes, NothingClosed DEF HeldInv, BuildsSession, Ending
  <2>2. BuildsSets(c)' /\ BuildsSession(c)'
    BY <2>1 DEF BuildsSets, BuildsSession, Served
  <2>3. HeldInv(c)'
    BY <2>1, <2>2, GoesOn DEF Ending, ExecutorSets
  <2> QED BY <1>3, <2>3, PassKeeps DEF Steps
<1>4. CASE Open(c, "adopt", "adopter", "assembled")
  <2>1. Served(c) /\ held'[c] = ExecutorSets \cup {"manager", "adopter", "session"}
        /\ pc'[c] = "assembled" /\ servers' = servers /\ faults'[c] = {}
    BY <1>0, <1>4, OpenDoes, NothingClosed DEF HeldInv, BuildsSession, Ending
  <2>2. BuildsSets(c)' /\ BuildsSession(c)'
    BY <2>1 DEF BuildsSets, BuildsSession, Attached, Served
  <2>3. HeldInv(c)'
    BY <2>1, <2>2, GoesOn DEF Ending, ExecutorSets
  <2> QED BY <1>4, <2>3, OpenKeeps DEF Steps, Resources
<1>5. ASSUME NEW from \in {"attach", "start", "adopt"}, Fail(c, from, AttachCleanup)
      PROVE  IInv'
  <2>1. from \in Steps \ Ending
    BY DEF Steps, Ending
  <2>2. AttachCleanup = CloseOrder
    BY DEF AttachCleanup, CloseOrder
  <2>3. AttachCleanup \in Plans /\ held[c] \subseteq Elems(AttachCleanup)
    BY <1>0, <2>2, PlanElems DEF TypeOK, Plans
  <2> QED BY <1>5, <2>1, <2>3, FailKeeps
<1> QED
  BY <1>1, <1>2, <1>3, <1>4, <1>5 DEF AttachBind, AttachStart, AttachAdopt

-----------------------------------------------------------------------------
(* Return, Close and what is given back on the way out. *)
LEMMA AgentKeeps ==
  ASSUME IInv, NEW c \in Calls, Return(c) \/ BeginClose(c) \/ Released(c)
  PROVE  IInv'
<1>0. TypeOK /\ HeldInv(c)
  BY DEF IInv
<1>1. CASE Pass(c, "assembled", "live")
  <2>1. /\ held'[c] = ExecutorSets \cup Attached(c) \cup {"session"} /\ pc'[c] = "live"
        /\ servers' = servers /\ faults'[c] = {}
    BY <1>0, <1>1, PassDoes, NothingClosed DEF HeldInv, BuildsSession, Ending
  <2>2. BuildsSets(c)' /\ BuildsSession(c)'
    BY <2>1 DEF BuildsSets, BuildsSession, Attached, Served
  <2>3. HeldInv(c)'
    BY <2>1, <2>2, GoesOn DEF Ending, Attached, ExecutorSets
  <2> QED BY <1>1, <2>3, PassKeeps DEF Steps
<1>2. CASE BeginClose(c)
  <2>1. /\ pc[c] = "live" /\ pc' = [pc EXCEPT ![c] = "closing"]
        /\ todo' = [todo EXCEPT ![c] = CloseOrder]
        /\ UNCHANGED <<held, servers, lease, shared, faults, report>>
    BY <1>2 DEF BeginClose, At, Go, Keep
  <2>2. pc'[c] = "closing" /\ todo'[c] = CloseOrder
        /\ \A d \in Calls \ {c} : pc'[d] = pc[d] /\ todo'[d] = todo[d]
    BY <1>0, <2>1 DEF TypeOK
  <2>3. held[c] = ExecutorSets \cup Attached(c) \cup {"session"} /\ faults[c] = {}
    BY <1>0, <2>1, NothingClosed DEF HeldInv, BuildsSession, Ending
  <2>4. CloseOrder \in Plans /\ Elems(CloseOrder) = Resources
    BY PlanElems DEF Plans
  <2>5. TypeOK'
    BY <1>0, <2>1, <2>4, PlanTyped DEF TypeOK, Steps
  <2>6. LeaseInv'
    BY <2>1, LeaseKept DEF IInv, Unclosed
  <2>7. HeldInv(c)'
    <3>1. BuildsSets(c)' /\ BuildsSession(c)'
      BY <2>2 DEF BuildsSets, BuildsSession
    <3>2. Unclosed(c)' = ExecutorSets \cup Attached(c) \cup {"session"} /\ faults'[c] = {}
      BY <2>1, <2>3 DEF Unclosed
    <3>3. GivesBack(c)'
      BY <2>1, <2>2, <3>2 DEF GivesBack, Attached, Served, ExecutorSets
    <3>4. CleansUp(c)'
      BY <1>0, <2>1, <2>2, <2>4, <3>2 DEF CleansUp, Ending, TypeOK, Unclosed
    <3> QED BY <3>1, <3>3, <3>4 DEF HeldInv
  <2>8. \A d \in Calls : HeldInv(d)'
    BY <2>1, <2>2, <2>7, OthersKeep DEF IInv
  <2> QED BY <2>5, <2>6, <2>8 DEF IInv
<1>3. ASSUME NEW from \in {"failing", "closing"}, NEW to \in {"failed", "closed"},
             todo[c] = <<>>, Pass(c, from, to)
      PROVE  IInv'
  <2>1. pc[c] = from /\ pc'[c] = to /\ held' = held /\ faults' = faults
    BY <1>0, <1>3, PassDoes
  <2>2. Unclosed(c)' = {}
    BY <1>0, <1>3, <2>1, PlanElems DEF HeldInv, CleansUp, Unclosed
  <2>3. HeldInv(c)'
    BY <2>1, <2>2 DEF HeldInv, BuildsSets, BuildsSession, GivesBack, CleansUp, Ending
  <2> QED BY <1>3, <2>3, PassKeeps DEF Steps
<1> QED BY <1>1, <1>2, <1>3 DEF Return, Released

(* What comes next of a cleanup, be it open or not. *)
LEMMA CloseNextDoes ==
  ASSUME IInv, NEW c \in Calls, CloseNext(c)
  PROVE  /\ pc[c] \in {"failing", "closing"} /\ todo[c] \in Plans /\ todo[c] # <<>>
         /\ UNCHANGED <<pc, servers, shared>>
         /\ todo'[c] = Tail(todo[c])
         /\ \A d \in Calls \ {c} :
              /\ held'[d] = held[d] /\ todo'[d] = todo[d] /\ faults'[d] = faults[d]
              /\ report'[d] = report[d]
         /\ Unclosed(c)' = Unclosed(c) \ {Head(todo[c])}
         /\ faults'[c] \subseteq faults[c] \cup {Head(todo[c])}
         /\ TypeOK' /\ LeaseInv'
<1> DEFINE r == Head(todo[c])
<1>0. TypeOK /\ HeldInv(c) /\ LeaseInv
  BY DEF IInv
<1>1. /\ pc[c] \in {"failing", "closing"} /\ todo[c] # <<>>
      /\ todo' = [todo EXCEPT ![c] = Tail(@)] /\ UNCHANGED <<pc, servers, shared>>
  BY DEF CloseNext
<1>2. todo[c] \in Plans /\ faults[c] \cap Elems(todo[c]) = {}
  BY <1>0, <1>1 DEF HeldInv, CleansUp
<1>3. r \in Resources /\ r \in Elems(todo[c]) /\ Tail(todo[c]) \in Plans
  BY <1>1, <1>2, PlanStep
<1>4. todo' \in [Calls -> Seq(Resources)] /\ todo'[c] = Tail(todo[c])
      /\ \A d \in Calls \ {c} : todo'[d] = todo[d]
  BY <1>0, <1>1, <1>3, PlanTyped DEF TypeOK
<1> HIDE DEF r
<1>5. CASE r \notin held[c] /\ UNCHANGED <<held, lease, faults, report>>
  <2>1. TypeOK'
    BY <1>0, <1>1, <1>4, <1>5 DEF TypeOK
  <2>2. LeaseInv'
    BY <1>0, <1>5, LeaseKept DEF Unclosed
  <2>3. Unclosed(c)' = Unclosed(c) \ {r}
    BY <1>5 DEF Unclosed
  <2> QED BY <1>1, <1>2, <1>4, <1>5, <2>1, <2>2, <2>3 DEF r
<1>6. CASE /\ r \in held[c] /\ Closes(c, r)
           /\ report' = IF pc[c] = "closing" /\ faults' # faults
                        THEN [report EXCEPT ![c] = Reported(@, r)] ELSE report
  <2>1. r \in Unclosed(c)
    BY <1>2, <1>3, <1>6 DEF Unclosed
  <2>2. /\ Unclosed(c)' = Unclosed(c) \ {r}
        /\ faults'[c] \subseteq faults[c] \cup {r}
        /\ \A d \in Calls \ {c} : held'[d] = held[d] /\ faults'[d] = faults[d]
        /\ held' \in [Calls -> SUBSET Resources] /\ faults' \in [Calls -> SUBSET Resources]
        /\ lease' \in [{"disk", "memory"} -> Calls \cup {None}]
        /\ LeaseInv'
    BY <1>0, <1>6, <2>1, CloseDoes
  <2>3. /\ report' \in [Calls -> Resources \cup {None}]
        /\ \A d \in Calls \ {c} : report'[d] = report[d]
    BY <1>0, <1>3, <1>6 DEF TypeOK, Reported
  <2>4. TypeOK'
    BY <1>0, <1>1, <1>4, <2>2, <2>3 DEF TypeOK
  <2> QED BY <1>1, <1>2, <1>4, <2>2, <2>3, <2>4 DEF r
<1> QED BY <1>5, <1>6 DEF CloseNext, r

LEMMA CloseNextKeeps ==
  ASSUME IInv, NEW c \in Calls, CloseNext(c)
  PROVE  IInv'
<1> DEFINE r == Head(todo[c])
           t == Tail(todo[c])
<1>0. HeldInv(c)
  BY DEF IInv
<1>1. /\ pc[c] \in {"failing", "closing"} /\ todo[c] \in Plans /\ todo[c] # <<>>
      /\ pc' = pc /\ servers' = servers /\ todo'[c] = t
      /\ \A d \in Calls \ {c} :
           held'[d] = held[d] /\ todo'[d] = todo[d] /\ faults'[d] = faults[d]
      /\ Unclosed(c)' = Unclosed(c) \ {r}
      /\ faults'[c] \subseteq faults[c] \cup {r}
      /\ TypeOK' /\ LeaseInv'
  BY CloseNextDoes
<1>2. /\ t \in Plans /\ Elems(todo[c]) = {r} \cup Elems(t)
      /\ \A i, j \in 1..6 : CloseOrder[i] = r /\ CloseOrder[j] \in Elems(t) => i < j
      /\ r \in Resources
      /\ "session" \notin Elems(t) /\ ("adopter" \in Elems(t) => r = "session")
  BY <1>1, PlanStep
<1>3. Unclosed(c) \subseteq Elems(todo[c]) /\ faults[c] \cap Elems(todo[c]) = {}
  BY <1>0, <1>1 DEF HeldInv, CleansUp
<1>4. r \notin Elems(t)
  <2>1. PICK i \in 1..6 : r = CloseOrder[i]
    BY <1>2, OrderShape
  <2> QED BY <1>2, <2>1
<1> HIDE DEF r, t
<1>5. Unclosed(c)' \subseteq Elems(t) /\ faults'[c] \cap Elems(t) = {}
  BY <1>1, <1>2, <1>3, <1>4
<1>6. HeldInv(c)'
  <2>1. BuildsSets(c)' /\ BuildsSession(c)'
    BY <1>1 DEF BuildsSets, BuildsSession
  <2>2. "adopter" \in Unclosed(c)' => "manager" \in Unclosed(c)'
    BY <1>0, <1>1, <1>2, <1>5 DEF HeldInv, GivesBack
  <2>3. GivesBack(c)'
    BY <1>1, <1>2, <1>5, <2>2 DEF GivesBack
  <2>4. CleansUp(c)'
    BY <1>1, <1>2, <1>5 DEF CleansUp, Ending
  <2> QED BY <2>1, <2>3, <2>4 DEF HeldInv
<1>7. \A d \in Calls : HeldInv(d)'
  BY <1>1, <1>6, OthersKeep DEF IInv
<1> QED BY <1>1, <1>7 DEF IInv

LEMMA AssembleKeeps ==
  ASSUME IInv, NEW c \in Calls, Assemble(c)
  PROVE  IInv'
BY SetsKeep, DefinitionsKeep, HeadlessStoresKeep, OpenSessionKeeps, WrapAdapterKeeps, AttachKeeps
   DEF Assemble

LEMMA AssemblyNextKeeps == IInv /\ [Next]_vars => IInv'
<1> SUFFICES ASSUME IInv, [Next]_vars PROVE IInv'
  OBVIOUS
<1>1. CASE UNCHANGED vars
  <2>1. TypeOK' /\ LeaseInv'
    BY <1>1, LeaseKept DEF vars, IInv, TypeOK, Unclosed
  <2>2. \A c \in Calls : HeldInv(c)'
    BY <1>1, OthersKeep DEF vars, IInv
  <2> QED BY <2>1, <2>2 DEF IInv
<1>2. ASSUME NEW c \in Calls,
             Begin(c) \/ Assemble(c) \/ Return(c) \/ BeginClose(c) \/ TearDown(c)
      PROVE  IInv'
  BY <1>2, SetsKeep, AssembleKeeps, AgentKeeps, CloseNextKeeps DEF TearDown
<1> QED BY <1>1, <1>2 DEF Next, Done

LEMMA AssemblySafe == IInv => NothingLeaks /\ ConsumersStopFirst
<1> SUFFICES ASSUME IInv PROVE NothingLeaks /\ ConsumersStopFirst
  OBVIOUS
<1>1. NothingLeaks
  BY DEF IInv, LeaseInv, HeldInv, GivesBack, NothingLeaks, Unclosed
<1>2. ConsumersStopFirst
  <2> SUFFICES ASSUME NEW c \in Calls, c \in Persisted, servers[c],
                      pc[c] \in {"assembled", "live"}
               PROVE  {"manager", "adopter"} \subseteq Unclosed(c)
    BY DEF IInv, HeldInv, GivesBack, Attached, Served, ConsumersStopFirst
  <2>1. Unclosed(c) = held[c]
    BY NothingClosed DEF IInv, Ending
  <2> QED BY <2>1 DEF IInv, HeldInv, BuildsSession, Attached, Served
<1> QED BY <1>1, <1>2

(* The type invariant, for any calls. *)
THEOREM AssemblyTyped == Spec => []TypeOK
<1>1. IInv => TypeOK
  BY DEF IInv
<1> QED BY <1>1, AssemblyInitially, AssemblyNextKeeps, PTL DEF Spec

(* Whatever step a session fails at, whichever Close fails on the way and whoever
   assembles one meanwhile: the cleanup of that failure, or an agent's Close, has
   called Close on all that was open, and the root lease is free, unless it was
   the session's Close that failed. *)
THEOREM NoLeaks == Spec => []NothingLeaks
<1> QED BY AssemblyInitially, AssemblyNextKeeps, AssemblySafe, PTL DEF Spec

(* No session outlives its executor sets, no adopter its manager. *)
THEOREM ConsumersFirst == Spec => []ConsumersStopFirst
<1> QED BY AssemblyInitially, AssemblyNextKeeps, AssemblySafe, PTL DEF Spec

-----------------------------------------------------------------------------
(* The least of some of the first six numbers. *)
LEMMA MinOfSix ==
  ASSUME NEW S \in SUBSET (1..6), S # {}
  PROVE  Min(S) \in S /\ \A j \in S : Min(S) <= j
<1>1. \E i \in S : \A j \in S : i <= j
  <2>1. \A i \in S : i \in {1, 2, 3, 4, 5, 6}
    OBVIOUS
  <2>2. CASE \A i \in S : i > 3
    <3>1. CASE 4 \in S
      BY <2>1, <2>2, <3>1
    <3>2. CASE 4 \notin S /\ 5 \in S
      BY <2>1, <2>2, <3>2
    <3>3. CASE 4 \notin S /\ 5 \notin S
      <4>1. \A i \in S : i = 6
        BY <2>1, <2>2, <3>3
      <4>2. PICK i \in S : TRUE
        OBVIOUS
      <4> QED BY <4>1, <4>2
    <3> QED BY <3>1, <3>2, <3>3
  <2>3. CASE ~(\A i \in S : i > 3)
    <3>1. CASE 1 \in S
      BY <2>1, <3>1
    <3>2. CASE 1 \notin S /\ 2 \in S
      BY <2>1, <3>2
    <3>3. CASE 1 \notin S /\ 2 \notin S
      <4>1. \A i \in S : i >= 3
        BY <2>1, <3>3
      <4>2. 3 \in S
        BY <2>1, <2>3, <4>1
      <4> QED BY <4>1, <4>2
    <3> QED BY <3>1, <3>2, <3>3
  <2> QED BY <2>2, <2>3
<1> QED BY <1>1 DEF Min

(* What an agent's Close reports: whatever failed comes before what is still to
   be closed, so a later failure is never an earlier one's better. *)
Faulty(c) == {i \in DOMAIN CloseOrder : CloseOrder[i] \in faults[c]}

ReportInv(c) ==
  /\ pc[c] \notin {"closing", "closed"} => report[c] = None
  /\ pc[c] \in {"closing", "closed"} =>
       report[c] = IF faults[c] = {} THEN None ELSE CloseOrder[Min(Faulty(c))]
  /\ pc[c] = "closing" => \A i, j \in 1..6 :
       CloseOrder[i] \in faults[c] /\ CloseOrder[j] \in Elems(todo[c]) => i < j

LEMMA ReportInit == AssemblyInit => \A c \in Calls : ReportInv(c)
BY DEF AssemblyInit, ReportInv

(* No other step has an error to report. *)
LEMMA QuietSteps ==
  ASSUME TypeOK, NEW c \in Calls,
         Begin(c) \/ Assemble(c) \/ Return(c) \/ BeginClose(c) \/ Released(c)
  PROVE  /\ report' = report
         /\ \/ pc[c] \notin {"closing", "closed"} /\ pc'[c] \notin {"closing", "closed"}
            \/ pc[c] = "live" /\ pc'[c] = "closing" /\ faults' = faults
            \/ pc[c] = "closing" /\ pc'[c] = "closed" /\ faults' = faults
         /\ \A d \in Calls \ {c} : pc'[d] = pc[d] /\ todo'[d] = todo[d] /\ faults'[d] = faults[d]
<1> USE DEF TypeOK, At, Go, Keep
<1>1. ASSUME NEW from \in Steps \ {"closing", "closed"}, NEW to \in Steps \ {"closing", "closed"},
             \/ Pass(c, from, to) \/ \E cleanup : Fail(c, from, cleanup)
             \/ \E r \in Resources : Open(c, from, r, to)
      PROVE  /\ report' = report
             /\ pc[c] \notin {"closing", "closed"} /\ pc'[c] \notin {"closing", "closed"}
             /\ \A d \in Calls \ {c} : pc'[d] = pc[d] /\ todo'[d] = todo[d] /\ faults'[d] = faults[d]
  BY <1>1 DEF Pass, Fail, Open
<1>2. CASE Begin(c) \/ AccessChecks(c) \/ BuildPlannerSet(c) \/ BuildBuilderSet(c)
  BY <1>1, <1>2 DEF Begin, AccessChecks, BuildPlannerSet, BuildBuilderSet, Steps, Resources,
     ExecutorSets
<1>3. CASE BuildReviewerSet(c) \/ NewMCPAssembly(c) \/ SwarmDefinitions(c) \/ PermissionReview(c)
  BY <1>1, <1>3 DEF BuildReviewerSet, NewMCPAssembly, SwarmDefinitions, PermissionReview, Steps,
     Resources, ExecutorSets
<1>4. CASE HeadlessStores(c)
  BY <1>4 DEF HeadlessStores
<1>5. CASE OpenSession(c)
  BY <1>5 DEF OpenSession, Fail
<1>6. CASE WrapAdapter(c)
  <2>1. CASE Pass(c, "adapter", IF c \in Persisted THEN "attach" ELSE "assembled")
    BY <2>1 DEF Pass
  <2>2. CASE At(c, "adapter") /\ Go(c, "failing") /\ Closes(c, "session") /\ report' = report
             /\ todo' = [todo EXCEPT ![c] = AssemblyCleanup(c)]
    <3>1. \A d \in Calls \ {c} : faults'[d] = faults[d]
      BY <2>2 DEF Closes
    <3> QED BY <2>2, <3>1
  <2> QED BY <1>6, <2>1, <2>2 DEF WrapAdapter
<1>7. CASE AttachBind(c) \/ AttachStart(c) \/ AttachAdopt(c) \/ Return(c)
  BY <1>1, <1>7 DEF AttachBind, AttachStart, AttachAdopt, Return, Steps, Resources
<1>8. CASE BeginClose(c) \/ Released(c)
  BY <1>8 DEF BeginClose, Released, Pass
<1> QED BY <1>2, <1>3, <1>4, <1>5, <1>6, <1>7, <1>8 DEF Assemble

LEMMA ReportKept ==
  ASSUME NEW c \in Calls, ReportInv(c), faults'[c] = faults[c], report'[c] = report[c],
         todo'[c] = todo[c], pc'[c] = pc[c] \/ (pc[c] = "closing" /\ pc'[c] = "closed")
  PROVE  ReportInv(c)'
BY DEF ReportInv, Faulty

(* The first of the faults stays the first when a later one joins them. *)
LEMMA FirstStays ==
  ASSUME NEW F \in SUBSET (1..6), NEW m \in 1..6, \A i \in F : i < m, F # {}
  PROVE  Min(F \cup {m}) = Min(F) /\ Min(F) \in 1..6
<1> DEFINE old == Min(F)
           new == Min(F \cup {m})
<1>1. old \in F /\ \A j \in F : old <= j
  BY MinOfSix
<1>2. new \in F \cup {m} /\ \A j \in F \cup {m} : new <= j
  <2>1. F \cup {m} \in SUBSET (1..6) /\ F \cup {m} # {}
    OBVIOUS
  <2> QED BY <2>1, MinOfSix
<1> HIDE DEF old, new
<1>3. old \in 1..6 /\ new \in 1..6 /\ old < m /\ new <= old
  BY <1>1, <1>2
<1>4. new \in F
  BY <1>2, <1>3
<1>5. old <= new
  BY <1>1, <1>4
<1>6. old = new
  BY <1>3, <1>5
<1> QED BY <1>3, <1>6 DEF old, new

(* A Close that fails is the first to, or comes after the first. *)
LEMMA CloseNextReports ==
  ASSUME IInv, NEW c \in Calls, ReportInv(c), CloseNext(c)
  PROVE  ReportInv(c)'
<1> DEFINE r == Head(todo[c])
           t == Tail(todo[c])
<1>0. TypeOK
  BY DEF IInv
<1>1. /\ todo[c] \in Plans /\ todo[c] # <<>> /\ pc' = pc /\ todo'[c] = t
      /\ pc[c] \in {"failing", "closing"}
  BY CloseNextDoes
<1>2. /\ r \in Resources /\ r \in Elems(todo[c]) /\ Elems(t) \subseteq Elems(todo[c])
      /\ \A i, j \in 1..6 : CloseOrder[i] = r /\ CloseOrder[j] \in Elems(t) => i < j
  BY <1>1, PlanStep
<1>3. \/ faults' = faults /\ report' = report
      \/ /\ faults' = [faults EXCEPT ![c] = @ \cup {r}]
         /\ report' = IF pc[c] = "closing" /\ faults' # faults
                      THEN [report EXCEPT ![c] = Reported(@, r)] ELSE report
  BY DEF CloseNext, Closes
<1> HIDE DEF r, t
<1>4. PICK m \in 1..6 : r = CloseOrder[m]
  BY <1>2, OrderShape
<1>5. CASE pc[c] = "failing"
  <2>1. report'[c] = report[c]
    BY <1>3, <1>5
  <2> QED BY <1>1, <1>5, <2>1 DEF ReportInv
<1>6. CASE pc[c] = "closing" /\ faults' = faults /\ report' = report
  BY <1>1, <1>2, <1>6 DEF ReportInv, Faulty
<1>7. CASE pc[c] = "closing" /\ ~(faults' = faults /\ report' = report)
  <2>1. /\ faults'[c] = faults[c] \cup {r}
        /\ report'[c] = Reported(report[c], r)
    BY <1>0, <1>3, <1>7 DEF TypeOK
  <2>2. Faulty(c)' = Faulty(c) \cup {m} /\ Faulty(c) \in SUBSET (1..6)
    BY <1>4, <2>1, OrderShape DEF Faulty
  <2>3. \A i \in Faulty(c) : i < m
    BY <1>2, <1>4, <1>7, OrderShape DEF Faulty, ReportInv
  <2>4. report'[c] = CloseOrder[Min(Faulty(c)')]
    <3>1. CASE faults[c] = {}
      <4>1. Faulty(c) = {} /\ Faulty(c)' = {m}
        BY <2>2, <3>1 DEF Faulty
      <4>2. Min({m}) = m
        <5>1. {m} \in SUBSET (1..6) /\ {m} # {}
          OBVIOUS
        <5> QED BY <5>1, MinOfSix
      <4>3. report'[c] = r
        BY <1>7, <2>1, <3>1 DEF Reported, ReportInv
      <4> QED BY <1>4, <4>1, <4>2, <4>3
    <3>2. CASE faults[c] # {}
      <4>1. Faulty(c) # {}
        <5>1. PICK f \in faults[c] : TRUE
          BY <3>2
        <5>2. \E i \in 1..6 : f = CloseOrder[i]
          BY <1>0, <5>1, OrderShape DEF TypeOK
        <5> QED BY <5>1, <5>2, OrderShape DEF Faulty
      <4>2. Min(Faulty(c)') = Min(Faulty(c)) /\ Min(Faulty(c)) \in 1..6
        BY <2>2, <2>3, <4>1, FirstStays
      <4>3. report[c] = CloseOrder[Min(Faulty(c))]
        BY <1>7, <3>2 DEF ReportInv
      <4>4. report[c] # None
        <5>1. CloseOrder[Min(Faulty(c))] \in Resources
          BY <4>2, OrderShape
        <5> QED BY <4>3, <5>1, AssemblyAssumption
      <4> QED BY <2>1, <4>2, <4>3, <4>4 DEF Reported
    <3> QED BY <3>1, <3>2
  <2>5. ASSUME NEW i \in 1..6, NEW j \in 1..6,
               CloseOrder[i] \in faults'[c], CloseOrder[j] \in Elems(t)
        PROVE  i < j
    <3>1. CASE CloseOrder[i] \in faults[c]
      BY <1>2, <1>7, <2>5, <3>1 DEF ReportInv
    <3>2. CASE CloseOrder[i] = r
      BY <1>2, <2>5, <3>2
    <3> QED BY <2>1, <2>5, <3>1, <3>2
  <2>6. faults'[c] # {}
    BY <2>1
  <2> QED BY <1>1, <1>7, <2>4, <2>5, <2>6 DEF ReportInv
<1> QED BY <1>1, <1>5, <1>6, <1>7

LEMMA ReportStep ==
  IInv /\ (\A c \in Calls : ReportInv(c)) /\ [Next]_vars => (\A c \in Calls : ReportInv(c))'
<1> SUFFICES ASSUME IInv, \A c \in Calls : ReportInv(c), [Next]_vars, NEW d \in Calls
             PROVE  ReportInv(d)'
  OBVIOUS
<1>1. CASE UNCHANGED vars
  BY <1>1, ReportKept DEF vars
<1>2. ASSUME NEW c \in Calls, CloseNext(c) PROVE ReportInv(d)'
  <2>1. CASE d = c
    BY <1>2, <2>1, CloseNextReports
  <2>2. CASE d # c
    <3>1. pc' = pc /\ todo'[d] = todo[d] /\ faults'[d] = faults[d] /\ report'[d] = report[d]
      BY <1>2, <2>2, CloseNextDoes
    <3> QED BY <3>1, ReportKept
  <2> QED BY <2>1, <2>2
<1>3. ASSUME NEW c \in Calls,
             Begin(c) \/ Assemble(c) \/ Return(c) \/ BeginClose(c) \/ Released(c)
      PROVE  ReportInv(d)'
  <2>0. report' = report
    BY <1>3, QuietSteps DEF IInv
  <2>1. CASE d # c
    BY <1>3, <2>0, <2>1, QuietSteps, ReportKept DEF IInv
  <2>2. CASE d = c /\ pc[c] \notin {"closing", "closed"} /\ pc'[c] \notin {"closing", "closed"}
    BY <2>0, <2>2 DEF ReportInv
  <2>3. CASE d = c /\ pc[c] = "live" /\ pc'[c] = "closing" /\ faults' = faults
    <3>1. faults'[c] = {}
      BY <2>3, NothingClosed DEF IInv, Ending
    <3> QED BY <2>0, <2>3, <3>1 DEF ReportInv
  <2>4. CASE d = c /\ pc[c] = "closing" /\ pc'[c] = "closed" /\ faults' = faults
    BY <2>0, <2>4 DEF ReportInv, Faulty
  <2> QED BY <1>3, <2>1, <2>2, <2>3, <2>4, QuietSteps DEF IInv
<1> QED BY <1>1, <1>2, <1>3 DEF Next, Done, TearDown

LEMMA ReportSafe == (\A c \in Calls : ReportInv(c)) => FirstFaultReported
BY DEF ReportInv, Faulty, FirstFaultReported

(* Of the Closes that fail in an agent's Close it returns the first's error. *)
THEOREM FirstFault == Spec => []FirstFaultReported
<1>1. Spec => []IInv
  BY AssemblyInitially, AssemblyNextKeeps, PTL DEF Spec
<1> QED BY <1>1, ReportInit, ReportStep, ReportSafe, PTL DEF Spec

-----------------------------------------------------------------------------
(* SessionStore *)

(* Who holds storeMu, and at which of its steps. *)
OpenLocked == {"ensure", "stores", "root", "assembling", "refuse", "unlock"}
ListLocked == {"ensure", "stores", "read", "unlock", "refuse"}

CallsTyped ==
  /\ opening \in [Persisted -> {"idle", "models", "lock", "ensure", "stores", "root",
                                "assembling", "refuse", "unlock", "settle",
                                "returned", "refused"}]
  /\ listing \in [Listers -> {"idle", "lock", "ensure", "stores", "read", "unlock",
                              "refuse", "filter", "filtering", "returned", "refused"}]
  /\ closing \in [Closers -> {"idle", "lock", "close", "returned"}]

MuInv ==
  /\ \A c \in Persisted : opening[c] \in OpenLocked <=> storeMu = c
  /\ \A l \in Listers : listing[l] \in ListLocked <=> storeMu = l
  /\ \A k \in Closers : closing[k] = "close" <=> storeMu = k

(* Somebody has opened the backend and not yet the stores over it. *)
InStores ==
  (\E c \in Persisted : opening[c] = "stores") \/ (\E l \in Listers : listing[l] = "stores")

BackendInv ==
  /\ fs \in {"none", "open", "shut"}
  /\ InStores => ~closed /\ fs = "none" /\ handles = 1
  /\ ~InStores => handles = IF fs = "open" THEN 1 ELSE 0

StoreInv == CallsTyped /\ MuInv /\ BackendInv

LEMMA StoreInitially == StoreInit => StoreInv
<1> SUFFICES ASSUME StoreInit PROVE StoreInv
  OBVIOUS
<1>1. CallsTyped
  BY DEF StoreInit, CallsTyped
<1>2. MuInv
  BY StoreAssumption, AssemblyAssumption DEF StoreInit, MuInv, OpenLocked, ListLocked, Calls
<1>3. BackendInv
  BY DEF StoreInit, BackendInv, InStores
<1> QED BY <1>1, <1>2, <1>3 DEF StoreInv

(* A step that neither takes nor frees storeMu nor touches the backend. *)
LEMMA StoreKept ==
  ASSUME StoreInv, CallsTyped', UNCHANGED <<storeMu, closed, fs, handles>>,
         \A c \in Persisted :
           /\ opening'[c] \in OpenLocked <=> opening[c] \in OpenLocked
           /\ opening'[c] = "stores" <=> opening[c] = "stores",
         \A l \in Listers :
           /\ listing'[l] \in ListLocked <=> listing[l] \in ListLocked
           /\ listing'[l] = "stores" <=> listing[l] = "stores",
         \A k \in Closers : closing'[k] = "close" <=> closing[k] = "close"
  PROVE  StoreInv'
<1>1. MuInv'
  BY DEF StoreInv, MuInv
<1>2. InStores' <=> InStores
  BY DEF InStores
<1>3. BackendInv'
  BY <1>2 DEF StoreInv, BackendInv
<1> QED BY <1>1, <1>3 DEF StoreInv

(* Only one call is at a step where it holds storeMu. *)
LEMMA OneHolder ==
  ASSUME StoreInv
  PROVE  /\ \A c, d \in Persisted :
              opening[c] \in OpenLocked /\ opening[d] \in OpenLocked => c = d
         /\ \A l, m \in Listers :
              listing[l] \in ListLocked /\ listing[m] \in ListLocked => l = m
         /\ \A c \in Persisted, l \in Listers :
              ~(opening[c] \in OpenLocked /\ listing[l] \in ListLocked)
         /\ \A k \in Closers : closing[k] = "close" =>
              /\ \A c \in Persisted : opening[c] \notin OpenLocked
              /\ \A l \in Listers : listing[l] \notin ListLocked
BY StoreAssumption DEF StoreInv, MuInv

-----------------------------------------------------------------------------
(* The steps of an Open. *)
LEMMA EnsureToOpenKeeps ==
  ASSUME StoreInv, NEW c \in Persisted, EnsureToOpen(c)
  PROVE  StoreInv'
<1>1. /\ UNCHANGED <<storeMu, closed, listing, closing>>
      /\ opening[c] \in {"ensure", "stores"}
      /\ \A d \in Persisted \ {c} : opening'[d] = opening[d]
  BY DEF EnsureToOpen, OpenAt, StoreInv, CallsTyped
<1>2. /\ \A d \in Persisted \ {c} : opening[d] # "stores"
      /\ \A l \in Listers : listing[l] # "stores"
  BY <1>1, OneHolder DEF OpenLocked, ListLocked
<1>3. InStores <=> opening[c] = "stores"
  BY <1>2 DEF InStores
<1>4. InStores' <=> opening'[c] = "stores"
  BY <1>1, <1>2 DEF InStores
<1>5. /\ opening' \in [Persisted -> {"idle", "models", "lock", "ensure", "stores", "root",
                                      "assembling", "refuse", "unlock", "settle",
                                      "returned", "refused"}]
      /\ opening'[c] \in {"refuse", "root", "stores"}
  BY DEF EnsureToOpen, OpenAt, StoreInv, CallsTyped
<1>6. CallsTyped' /\ MuInv'
  <2>1. \A d \in Persisted : opening'[d] \in OpenLocked <=> opening[d] \in OpenLocked
    BY <1>1, <1>5 DEF OpenLocked
  <2> QED BY <1>1, <1>5, <2>1 DEF StoreInv, CallsTyped, MuInv
<1>7. BackendInv'
  <2>1. CASE \/ RefuseClosed /\ OpenAt(c, "ensure", "refuse")
             \/ Reuse /\ OpenAt(c, "ensure", "root")
             \/ BackendFails /\ OpenAt(c, "ensure", "refuse")
    <3>1. opening[c] # "stores" /\ opening'[c] # "stores" /\ UNCHANGED <<fs, handles>>
      BY <2>1 DEF RefuseClosed, Reuse, BackendFails, OpenAt, StoreInv, CallsTyped
    <3> QED BY <1>1, <1>3, <1>4, <3>1 DEF StoreInv, BackendInv
  <2>2. CASE OpenBackend /\ OpenAt(c, "ensure", "stores")
    <3>1. opening[c] # "stores" /\ opening'[c] = "stores" /\ ~closed /\ fs = "none" /\ fs' = fs
          /\ handles' = handles + 1
      BY <2>2 DEF OpenBackend, OpenAt, StoreInv, CallsTyped
    <3> QED BY <1>1, <1>3, <1>4, <3>1 DEF StoreInv, BackendInv
  <2>3. CASE KeepStores /\ OpenAt(c, "stores", "root")
    <3>1. opening[c] = "stores" /\ opening'[c] # "stores" /\ fs' = "open" /\ handles' = handles
      BY <2>3 DEF KeepStores, OpenAt, StoreInv, CallsTyped
    <3> QED BY <1>1, <1>3, <1>4, <3>1 DEF StoreInv, BackendInv
  <2>4. CASE DropStores /\ OpenAt(c, "stores", "refuse")
    <3>1. opening[c] = "stores" /\ opening'[c] # "stores" /\ fs' = fs /\ handles' = handles - 1
      BY <2>4 DEF DropStores, OpenAt, StoreInv, CallsTyped
    <3> QED BY <1>1, <1>3, <1>4, <3>1 DEF StoreInv, BackendInv
  <2> QED BY <2>1, <2>2, <2>3, <2>4 DEF EnsureToOpen
<1> QED BY <1>6, <1>7 DEF StoreInv

LEMMA LockToOpenKeeps ==
  ASSUME StoreInv, NEW c \in Persisted, LockToOpen(c)
  PROVE  StoreInv'
<1>1. /\ storeMu = None /\ storeMu' = c /\ UNCHANGED <<closed, fs, handles, listing, closing>>
      /\ opening[c] = "lock" /\ opening'[c] = "ensure"
      /\ \A d \in Persisted \ {c} : opening'[d] = opening[d]
      /\ CallsTyped'
  BY DEF LockToOpen, OpenAt, StoreInv, CallsTyped
<1>2. MuInv'
  BY <1>1, StoreAssumption, AssemblyAssumption DEF StoreInv, MuInv, OpenLocked, Calls
<1>3. InStores' <=> InStores
  BY <1>1 DEF InStores
<1> QED BY <1>1, <1>2, <1>3 DEF StoreInv, BackendInv

LEMMA UnlockOpenedKeeps ==
  ASSUME StoreInv, NEW c \in Persisted, UnlockOpened(c)
  PROVE  StoreInv'
<1>1. /\ storeMu' = None /\ UNCHANGED <<closed, fs, handles, listing, closing>>
      /\ opening[c] \in {"unlock", "refuse"} /\ opening'[c] \in {"settle", "refused"}
      /\ \A d \in Persisted \ {c} : opening'[d] = opening[d]
      /\ CallsTyped'
  BY DEF UnlockOpened, OpenAt, StoreInv, CallsTyped
<1>2. storeMu = c
  BY <1>1 DEF StoreInv, MuInv, OpenLocked
<1>3. MuInv'
  BY <1>1, <1>2, StoreAssumption, AssemblyAssumption DEF StoreInv, MuInv, OpenLocked, Calls
<1>4. InStores' <=> InStores
  BY <1>1 DEF InStores
<1> QED BY <1>1, <1>3, <1>4 DEF StoreInv, BackendInv

LEMMA OpensKeep ==
  ASSUME StoreInv, NEW c \in Persisted, CallOpen(c) \/ OpenSteps(c) \/ CloseAgent(c)
  PROVE  StoreInv'
<1>1. CASE \E from, to \in {"idle", "models", "lock", "settle", "returned", "refused"} :
             OpenAt(c, from, to) /\ UNCHANGED <<storeMu, closed, fs, handles, listing, closing>>
  <2>1. CallsTyped' /\ \A d \in Persisted :
          /\ opening'[d] \in OpenLocked <=> opening[d] \in OpenLocked
          /\ opening'[d] = "stores" <=> opening[d] = "stores"
    BY <1>1 DEF OpenAt, StoreInv, CallsTyped, OpenLocked
  <2> QED BY <1>1, <2>1, StoreKept
<1>2. CASE \E from, to \in {"root", "assembling", "refuse", "unlock"} :
             OpenAt(c, from, to) /\ UNCHANGED <<storeMu, closed, fs, handles, listing, closing>>
  <2>1. CallsTyped' /\ \A d \in Persisted :
          /\ opening'[d] \in OpenLocked <=> opening[d] \in OpenLocked
          /\ opening'[d] = "stores" <=> opening[d] = "stores"
    BY <1>2 DEF OpenAt, StoreInv, CallsTyped, OpenLocked
  <2> QED BY <1>2, <2>1, StoreKept
<1>3. CASE UNCHANGED <<factory, opening, listing, closing>>
  BY <1>3, StoreKept DEF factory, StoreInv, CallsTyped
<1>4. CASE CallOpen(c) \/ LoadModels(c) \/ SettleCurrent(c)
  BY <1>1, <1>4 DEF CallOpen, LoadModels, SettleCurrent, factory
<1>5. CASE EnterAssembly(c) \/ LeaveAssembly(c)
  BY <1>2, <1>5 DEF EnterAssembly, LeaveAssembly, factory
<1>6. CASE AssemblyStep(c) \/ CloseAgent(c)
  BY <1>3, <1>6 DEF AssemblyStep, CloseAgent, storeVars, calls
<1> QED
  BY <1>4, <1>5, <1>6, EnsureToOpenKeeps, LockToOpenKeeps, UnlockOpenedKeeps DEF OpenSteps

-----------------------------------------------------------------------------
(* The steps of a listing. *)
LEMMA EnsureToListKeeps ==
  ASSUME StoreInv, NEW l \in Listers, EnsureToList(l)
  PROVE  StoreInv'
<1>1. /\ UNCHANGED <<storeMu, closed, opening, closing>>
      /\ listing[l] \in {"ensure", "stores"}
      /\ \A m \in Listers \ {l} : listing'[m] = listing[m]
  BY DEF EnsureToList, ListAt, StoreInv, CallsTyped
<1>2. /\ \A m \in Listers \ {l} : listing[m] # "stores"
      /\ \A c \in Persisted : opening[c] # "stores"
  BY <1>1, OneHolder DEF OpenLocked, ListLocked
<1>3. InStores <=> listing[l] = "stores"
  BY <1>2 DEF InStores
<1>4. InStores' <=> listing'[l] = "stores"
  BY <1>1, <1>2 DEF InStores
<1>5. /\ listing' \in [Listers -> {"idle", "lock", "ensure", "stores", "read", "unlock",
                                    "refuse", "filter", "filtering", "returned", "refused"}]
      /\ listing'[l] \in {"refuse", "read", "stores"}
  BY DEF EnsureToList, ListAt, StoreInv, CallsTyped
<1>6. CallsTyped' /\ MuInv'
  <2>1. \A m \in Listers : listing'[m] \in ListLocked <=> listing[m] \in ListLocked
    BY <1>1, <1>5 DEF ListLocked
  <2> QED BY <1>1, <1>5, <2>1 DEF StoreInv, CallsTyped, MuInv
<1>7. BackendInv'
  <2>1. CASE \/ RefuseClosed /\ ListAt(l, "ensure", "refuse")
             \/ Reuse /\ ListAt(l, "ensure", "read")
             \/ BackendFails /\ ListAt(l, "ensure", "refuse")
    <3>1. listing[l] # "stores" /\ listing'[l] # "stores" /\ UNCHANGED <<fs, handles>>
      BY <2>1 DEF RefuseClosed, Reuse, BackendFails, ListAt, StoreInv, CallsTyped
    <3> QED BY <1>1, <1>3, <1>4, <3>1 DEF StoreInv, BackendInv
  <2>2. CASE OpenBackend /\ ListAt(l, "ensure", "stores")
    <3>1. listing[l] # "stores" /\ listing'[l] = "stores" /\ ~closed /\ fs = "none" /\ fs' = fs
          /\ handles' = handles + 1
      BY <2>2 DEF OpenBackend, ListAt, StoreInv, CallsTyped
    <3> QED BY <1>1, <1>3, <1>4, <3>1 DEF StoreInv, BackendInv
  <2>3. CASE KeepStores /\ ListAt(l, "stores", "read")
    <3>1. listing[l] = "stores" /\ listing'[l] # "stores" /\ fs' = "open" /\ handles' = handles
      BY <2>3 DEF KeepStores, ListAt, StoreInv, CallsTyped
    <3> QED BY <1>1, <1>3, <1>4, <3>1 DEF StoreInv, BackendInv
  <2>4. CASE DropStores /\ ListAt(l, "stores", "refuse")
    <3>1. listing[l] = "stores" /\ listing'[l] # "stores" /\ fs' = fs /\ handles' = handles - 1
      BY <2>4 DEF DropStores, ListAt, StoreInv, CallsTyped
    <3> QED BY <1>1, <1>3, <1>4, <3>1 DEF StoreInv, BackendInv
  <2> QED BY <2>1, <2>2, <2>3, <2>4 DEF EnsureToList
<1> QED BY <1>6, <1>7 DEF StoreInv

LEMMA ListLocks ==
  ASSUME StoreInv, NEW l \in Listers, LockToList(l) \/ UnlockListed(l)
  PROVE  StoreInv'
<1>1. /\ UNCHANGED <<closed, fs, handles, opening, closing>>
      /\ \/ storeMu = None /\ storeMu' = l /\ listing[l] = "lock" /\ listing'[l] = "ensure"
         \/ /\ storeMu' = None /\ listing[l] \in {"unlock", "refuse"}
            /\ listing'[l] \in {"filter", "refused"}
      /\ \A m \in Listers \ {l} : listing'[m] = listing[m]
      /\ CallsTyped'
  BY DEF LockToList, UnlockListed, ListAt, StoreInv, CallsTyped
<1>2. listing[l] \in {"unlock", "refuse"} => storeMu = l
  BY DEF StoreInv, MuInv, ListLocked
<1>3. MuInv'
  BY <1>1, <1>2, StoreAssumption, AssemblyAssumption DEF StoreInv, MuInv, ListLocked, Calls
<1>4. InStores' <=> InStores
  BY <1>1 DEF InStores
<1> QED BY <1>1, <1>3, <1>4 DEF StoreInv, BackendInv

LEMMA ListsKeep ==
  ASSUME StoreInv, NEW l \in Listers, CallList(l) \/ ListSteps(l)
  PROVE  StoreInv'
<1>1. CASE \E from, to \in {"idle", "lock", "filter", "filtering", "returned"} :
             ListAt(l, from, to) /\ UNCHANGED <<storeMu, closed, fs, handles, opening, closing>>
  <2>1. CallsTyped' /\ \A m \in Listers :
          /\ listing'[m] \in ListLocked <=> listing[m] \in ListLocked
          /\ listing'[m] = "stores" <=> listing[m] = "stores"
    BY <1>1 DEF ListAt, StoreInv, CallsTyped, ListLocked
  <2> QED BY <1>1, <2>1, StoreKept
<1>2. CASE \E from, to \in {"read", "unlock", "refuse"} :
             ListAt(l, from, to) /\ UNCHANGED <<storeMu, closed, fs, handles, opening, closing>>
  <2>1. CallsTyped' /\ \A m \in Listers :
          /\ listing'[m] \in ListLocked <=> listing[m] \in ListLocked
          /\ listing'[m] = "stores" <=> listing[m] = "stores"
    BY <1>2 DEF ListAt, StoreInv, CallsTyped, ListLocked
  <2> QED BY <1>2, <2>1, StoreKept
<1>3. CASE CallList(l) \/ ReadCurrent(l) \/ ReturnList(l)
  BY <1>1, <1>3 DEF CallList, ReadCurrent, ReturnList, factory
<1>4. CASE ReadCatalog(l)
  BY <1>2, <1>4 DEF ReadCatalog, factory
<1> QED BY <1>3, <1>4, EnsureToListKeeps, ListLocks DEF ListSteps

(* The factory's Close. *)
LEMMA ClosesKeep ==
  ASSUME StoreInv, NEW k \in Closers, CallClose(k) \/ CloseSteps(k)
  PROVE  StoreInv'
<1>1. CASE CallClose(k)
  <2>1. CallsTyped' /\ \A j \in Closers : closing'[j] = "close" <=> closing[j] = "close"
    BY <1>1 DEF CallClose, CloseAt, StoreInv, CallsTyped
  <2>2. UNCHANGED <<storeMu, closed, fs, handles, opening, listing>>
    BY <1>1 DEF CallClose, factory
  <2> QED BY <2>1, <2>2, StoreKept
<1>2. CASE LockToClose(k)
  <2>1. /\ storeMu = None /\ storeMu' = k /\ UNCHANGED <<closed, fs, handles, opening, listing>>
        /\ closing[k] = "lock" /\ closing'[k] = "close"
        /\ \A j \in Closers \ {k} : closing'[j] = closing[j]
        /\ CallsTyped'
    BY <1>2 DEF LockToClose, CloseAt, StoreInv, CallsTyped
  <2>2. MuInv'
    BY <2>1, StoreAssumption, AssemblyAssumption DEF StoreInv, MuInv, Calls
  <2>3. InStores' <=> InStores
    BY <2>1 DEF InStores
  <2> QED BY <2>1, <2>2, <2>3 DEF StoreInv, BackendInv
<1>3. CASE CloseBackend(k)
  <2>1. /\ storeMu' = None /\ UNCHANGED <<opening, listing>>
        /\ closing[k] = "close" /\ closing'[k] = "returned"
        /\ \A j \in Closers \ {k} : closing'[j] = closing[j]
        /\ CallsTyped'
    BY <1>3 DEF CloseBackend, CloseAt, StoreInv, CallsTyped
  <2>2. storeMu = k
    BY <2>1 DEF StoreInv, MuInv
  <2>3. MuInv'
    BY <2>1, <2>2, StoreAssumption, AssemblyAssumption DEF StoreInv, MuInv, Calls
  <2>4. ~InStores /\ ~InStores'
    BY <2>1, OneHolder DEF InStores, OpenLocked, ListLocked
  <2>5. handles' = IF fs' = "open" THEN 1 ELSE 0
    <3>1. handles = (IF fs = "open" THEN 1 ELSE 0) /\ fs \in {"none", "open", "shut"}
      BY <2>4 DEF StoreInv, BackendInv
    <3>2. CASE ~closed /\ fs = "open"
      BY <1>3, <3>1, <3>2 DEF CloseBackend
    <3>3. CASE ~(~closed /\ fs = "open")
      BY <1>3, <3>1, <3>3 DEF CloseBackend
    <3> QED BY <3>2, <3>3
  <2>6. fs' \in {"none", "open", "shut"}
    BY <1>3 DEF CloseBackend, StoreInv, BackendInv
  <2> QED BY <2>1, <2>3, <2>4, <2>5, <2>6 DEF StoreInv, BackendInv
<1> QED BY <1>1, <1>2, <1>3 DEF CloseSteps

LEMMA StoreStep == StoreInv /\ [StoreNext]_allVars => StoreInv'
<1> SUFFICES ASSUME StoreInv, [StoreNext]_allVars PROVE StoreInv'
  OBVIOUS
<1>1. CASE UNCHANGED allVars
  <2>1. UNCHANGED <<opening, listing, closing, storeMu, closed, fs, handles>>
    BY <1>1 DEF allVars, storeVars, factory, calls
  <2> QED BY <2>1, StoreKept DEF StoreInv, CallsTyped
<1> QED BY <1>1, OpensKeep, ListsKeep, ClosesKeep DEF StoreNext, StoreDone

LEMMA StoreSafe == StoreInv => OneBackend
<1> SUFFICES ASSUME StoreInv, storeMu = None PROVE handles = IF fs = "open" THEN 1 ELSE 0
  BY DEF OneBackend
<1>1. ~InStores
  BY StoreAssumption, AssemblyAssumption
     DEF StoreInv, MuInv, InStores, OpenLocked, ListLocked, Calls
<1> QED BY <1>1 DEF StoreInv, BackendInv

(* Between calls the factory has exactly the backend it remembers, whichever
   Opens, listings and Closes came first and wherever they failed. *)
THEOREM BackendOwned == StoreSpec => []OneBackend
<1> QED BY StoreInitially, StoreStep, StoreSafe, PTL DEF StoreSpec

-----------------------------------------------------------------------------
(* How far an Open is and how far the assembly it runs. *)
OpenInv(c) ==
  /\ opening[c] \in {"idle", "models", "lock", "ensure", "stores", "root"} => pc[c] = "idle"
  /\ opening[c] = "assembling" => pc[c] \notin {"live", "closing", "closed"}
  /\ opening[c] \in {"refuse", "refused"} => pc[c] \in {"idle", "failed"}
  /\ opening[c] \in {"unlock", "settle"} => pc[c] = "assembled"
  /\ opening[c] = "returned" => pc[c] \in {"live", "closing", "closed"}

LiveInv ==
  /\ CallsTyped /\ IInv
  /\ session \in [Persisted -> SessionIds \cup {None}] /\ catalog \subseteq SessionIds
  /\ \A c \in Persisted : OpenInv(c)
  /\ LiveSessionIsCurrent

LEMMA LiveInitially == StoreInit => LiveInv
<1> SUFFICES ASSUME StoreInit PROVE LiveInv
  OBVIOUS
<1>1. CallsTyped /\ IInv
  BY StoreInitially, AssemblyInitially DEF StoreInit, StoreInv
<1>2. \A c \in Persisted : OpenInv(c) /\ pc[c] # "live"
  BY DEF StoreInit, AssemblyInit, OpenInv, Calls
<1>3. session \in [Persisted -> SessionIds \cup {None}] /\ catalog \subseteq SessionIds
  BY StoreAssumption DEF StoreInit
<1> QED BY <1>1, <1>2, <1>3 DEF LiveInv, LiveSessionIsCurrent

(* Every step of the factory is a step of the assemblies or none. *)
LEMMA StoreRunsAssembly == [StoreNext]_allVars => [Next]_vars
<1> SUFFICES ASSUME [StoreNext]_allVars PROVE [Next]_vars
  OBVIOUS
<1>1. ASSUME NEW c \in Persisted, CallOpen(c) \/ OpenSteps(c) \/ CloseAgent(c)
      PROVE  [Next]_vars
  BY <1>1 DEF CallOpen, OpenSteps, CloseAgent, LoadModels, LockToOpen, EnsureToOpen, EnterAssembly,
     AssemblyStep, LeaveAssembly, UnlockOpened, SettleCurrent, Next, Calls
<1>2. ASSUME NEW l \in Listers, CallList(l) \/ ListSteps(l)
      PROVE  [Next]_vars
  BY <1>2 DEF CallList, ListSteps, LockToList, EnsureToList, ReadCatalog, UnlockListed,
     ReadCurrent, ReturnList
<1>3. ASSUME NEW k \in Closers, CallClose(k) \/ CloseSteps(k)
      PROVE  [Next]_vars
  BY <1>3 DEF CallClose, CloseSteps, LockToClose, CloseBackend
<1>4. CASE StoreDone \/ UNCHANGED allVars
  BY <1>4 DEF StoreDone, allVars
<1> QED BY <1>1, <1>2, <1>3, <1>4 DEF StoreNext

(* Run by the factory, whose Opens take storeMu one after the other and share
   one backend, the assemblies do nothing they do not do on their own: what is
   proved of Spec holds of the factory's sessions too. *)
THEOREM StoreRunsAssemblies == StoreSpec => Spec
<1>1. StoreInit => AssemblyInit
  BY DEF StoreInit
<1> QED BY <1>1, StoreRunsAssembly, PTL DEF StoreSpec, Spec

(* Assembling and giving back never make an agent, and concern one call. *)
LEMMA AssemblingStays ==
  ASSUME TypeOK, NEW c \in Calls, Assemble(c) \/ (pc[c] = "failing" /\ TearDown(c))
  PROVE  /\ pc'[c] \notin {"live", "closing", "closed"}
         /\ \A d \in Calls \ {c} : pc'[d] = pc[d]
<1> USE DEF TypeOK, At, Go
<1>1. ASSUME NEW from, NEW to \in Steps \ {"live", "closing", "closed"},
             \/ Pass(c, from, to) \/ \E cleanup : Fail(c, from, cleanup)
             \/ \E r \in Resources : Open(c, from, r, to)
      PROVE  pc'[c] \notin {"live", "closing", "closed"} /\ \A d \in Calls \ {c} : pc'[d] = pc[d]
  BY <1>1 DEF Pass, Fail, Open
<1>2. CASE AccessChecks(c) \/ BuildPlannerSet(c) \/ BuildBuilderSet(c) \/ BuildReviewerSet(c)
  BY <1>1, <1>2 DEF AccessChecks, BuildPlannerSet, BuildBuilderSet, BuildReviewerSet, Steps,
     Resources, ExecutorSets
<1>3. CASE NewMCPAssembly(c) \/ SwarmDefinitions(c) \/ PermissionReview(c)
  BY <1>1, <1>3 DEF NewMCPAssembly, SwarmDefinitions, PermissionReview, Steps, Resources
<1>4. CASE HeadlessStores(c) \/ OpenSession(c) \/ WrapAdapter(c)
  BY <1>4 DEF HeadlessStores, OpenSession, WrapAdapter, Pass, Fail
<1>5. CASE AttachBind(c) \/ AttachStart(c) \/ AttachAdopt(c)
  BY <1>1, <1>5 DEF AttachBind, AttachStart, AttachAdopt, Steps, Resources
<1>6. CASE pc[c] = "failing" /\ TearDown(c)
  BY <1>6 DEF TearDown, CloseNext, Released, Pass
<1> QED BY <1>2, <1>3, <1>4, <1>5, <1>6 DEF Assemble

(* Two calls never both have an open session. *)
LEMMA OneSession ==
  ASSUME IInv, NEW c \in Persisted, NEW d \in Persisted,
         pc[c] \in {"assembled", "live"}, pc[d] \in {"assembled", "live"}
  PROVE  c = d
<1>1. c \in Calls /\ d \in Calls
  BY DEF Calls
<1>2. "session" \in held[c] /\ "session" \in held[d]
  BY <1>1 DEF IInv, HeldInv, BuildsSession
<1>3. "session" \in Unclosed(c) /\ "session" \in Unclosed(d)
  BY <1>1, <1>2, NothingClosed DEF IInv, Ending
<1> QED BY <1>1, <1>3 DEF IInv, LeaseInv, Backend

(* What a step must not do to keep the current session right. *)
LEMMA LiveKept ==
  ASSUME LiveInv, IInv', CallsTyped', \A c \in Persisted : OpenInv(c)',
         UNCHANGED <<session, catalog, current>>,
         \A c \in Persisted : pc'[c] = "live" => pc[c] = "live"
  PROVE  LiveInv'
BY DEF LiveInv, LiveSessionIsCurrent

LEMMA OpenKept ==
  ASSUME NEW c \in Persisted, OpenInv(c), pc'[c] = pc[c], opening'[c] = opening[c]
  PROVE  OpenInv(c)'
BY DEF OpenInv

(* The steps of an Open that leave its assembly alone. *)
LEMMA OpenBesides ==
  ASSUME LiveInv, IInv', NEW c \in Persisted, UNCHANGED vars,
         \/ CallOpen(c) \/ LoadModels(c) \/ LockToOpen(c) \/ EnsureToOpen(c)
         \/ EnterAssembly(c) \/ LeaveAssembly(c) \/ UnlockOpened(c)
  PROVE  LiveInv'
<1>1. \E from, to : /\ OpenAt(c, from, to)
                    /\ \/ from = "idle" /\ to = "models"
                       \/ from = "models" /\ to \in {"lock", "refused"}
                       \/ from = "lock" /\ to = "ensure"
                       \/ from = "ensure" /\ to \in {"refuse", "root", "stores"}
                       \/ from = "stores" /\ to \in {"root", "refuse"}
                       \/ from = "root" /\ to = "refuse"
                       \/ from = "assembling" /\ to = "unlock" /\ pc[c] = "assembled"
                       \/ from = "assembling" /\ to = "refuse" /\ pc[c] = "failed"
                       \/ from = "unlock" /\ to = "settle"
                       \/ from = "refuse" /\ to = "refused"
  <2>1. CASE CallOpen(c) \/ LoadModels(c) \/ LockToOpen(c) \/ UnlockOpened(c)
    BY <2>1 DEF CallOpen, LoadModels, LockToOpen, UnlockOpened
  <2>2. CASE EnsureToOpen(c)
    BY <2>2 DEF EnsureToOpen
  <2>3. CASE EnterAssembly(c)
    <3>1. ~Begin(c)
      BY DEF Begin, Pass, At, Go, LiveInv, IInv, TypeOK, Calls, vars
    <3> QED BY <2>3, <3>1 DEF EnterAssembly
  <2>4. CASE LeaveAssembly(c)
    BY <2>4 DEF LeaveAssembly
  <2> QED BY <2>1, <2>2, <2>3, <2>4
<1>2. CallsTyped' /\ \A d \in Persisted \ {c} : opening'[d] = opening[d]
  <2>1. UNCHANGED <<listing, closing>>
    BY DEF CallOpen, LoadModels, LockToOpen, EnsureToOpen, EnterAssembly, LeaveAssembly,
       UnlockOpened
  <2> QED BY <1>1, <2>1 DEF OpenAt, LiveInv, CallsTyped
<1>3. OpenInv(c)'
  <2>1. pc' = pc
    BY DEF vars
  <2> QED BY <1>1, <2>1 DEF OpenAt, LiveInv, OpenInv, CallsTyped
<1>4. \A d \in Persisted : OpenInv(d)'
  BY <1>2, <1>3, OpenKept DEF LiveInv, vars
<1>5. UNCHANGED <<session, catalog, current>>
  BY DEF CallOpen, LoadModels, LockToOpen, EnsureToOpen, EnterAssembly, LeaveAssembly,
     UnlockOpened, factory
<1> QED BY <1>2, <1>4, <1>5, LiveKept DEF vars

(* The steps that move the assembly. *)
LEMMA OpenAssembles ==
  ASSUME LiveInv, IInv', NEW c \in Persisted,
         (EnterAssembly(c) /\ Begin(c)) \/ AssemblyStep(c)
  PROVE  LiveInv'
<1>0. c \in Calls /\ TypeOK
  BY DEF Calls, LiveInv, IInv
<1>1. /\ pc'[c] \notin {"live", "closing", "closed"} /\ pc[c] # "live"
      /\ \A d \in Calls \ {c} : pc'[d] = pc[d]
      /\ opening'[c] = "assembling" /\ \A d \in Persisted \ {c} : opening'[d] = opening[d]
      /\ CallsTyped'
  <2>1. CASE EnterAssembly(c) /\ Begin(c)
    <3>1. pc'[c] = "checks" /\ pc[c] = "idle" /\ \A d \in Calls \ {c} : pc'[d] = pc[d]
      BY <1>0, <2>1 DEF Begin, Pass, At, Go, TypeOK
    <3>2. OpenAt(c, "root", "assembling") /\ UNCHANGED <<listing, closing>>
      BY <2>1, <3>1 DEF EnterAssembly, vars
    <3> QED BY <3>1, <3>2 DEF OpenAt, LiveInv, CallsTyped
  <2>2. CASE AssemblyStep(c)
    <3>1. opening[c] = "assembling" /\ UNCHANGED <<opening, listing, closing>>
      BY <2>2 DEF AssemblyStep
    <3>2. pc'[c] \notin {"live", "closing", "closed"} /\ \A d \in Calls \ {c} : pc'[d] = pc[d]
      BY <1>0, <2>2, AssemblingStays DEF AssemblyStep
    <3> QED BY <3>1, <3>2 DEF LiveInv, CallsTyped, OpenInv
  <2> QED BY <2>1, <2>2
<1>2. \A d \in Persisted : OpenInv(d)'
  <2>1. OpenInv(c)'
    BY <1>1 DEF OpenInv
  <2> QED BY <1>1, <2>1, OpenKept DEF LiveInv, Calls
<1>3. /\ session' \in [Persisted -> SessionIds \cup {None}] /\ catalog' \subseteq SessionIds
      /\ current' = current
      /\ \A d \in Persisted \ {c} : session'[d] = session[d]
  <2>1. CASE EnterAssembly(c) /\ Begin(c)
    BY <2>1 DEF EnterAssembly, factory, LiveInv
  <2>2. CASE AssemblyStep(c)
    <3>1. CASE "session" \in held'[c] \ held[c]
      <4>1. PICK s \in SessionIds :
              session' = [session EXCEPT ![c] = s] /\ catalog' = catalog \cup {s}
        BY <2>2, <3>1 DEF AssemblyStep, LiveInv
      <4> QED BY <2>2, <4>1 DEF AssemblyStep, factory, LiveInv
    <3>2. CASE "session" \notin held'[c] \ held[c]
      BY <2>2, <3>2 DEF AssemblyStep, factory, LiveInv
    <3> QED BY <3>1, <3>2
  <2> QED BY <2>1, <2>2
<1>4. LiveSessionIsCurrent'
  <2> SUFFICES ASSUME NEW d \in Persisted, pc'[d] = "live" PROVE current' = session'[d]
    BY DEF LiveSessionIsCurrent
  <2>1. d # c /\ pc[d] = "live"
    BY <1>1 DEF Calls
  <2> QED BY <1>3, <2>1 DEF LiveInv, LiveSessionIsCurrent
<1> QED BY <1>1, <1>2, <1>3, <1>4 DEF LiveInv

(* An Open that returns is the only one with a session. *)
LEMMA OpenSettles ==
  ASSUME LiveInv, IInv', NEW c \in Persisted, SettleCurrent(c)
  PROVE  LiveInv'
<1>0. c \in Calls /\ TypeOK
  BY DEF Calls, LiveInv, IInv
<1>1. /\ opening[c] = "settle" /\ opening'[c] = "returned" /\ pc[c] = "assembled" /\ pc'[c] = "live"
      /\ \A d \in Persisted \ {c} : opening'[d] = opening[d] /\ pc'[d] = pc[d]
      /\ CallsTyped'
  BY <1>0 DEF SettleCurrent, OpenAt, Return, Pass, At, Go, LiveInv, CallsTyped, TypeOK, Calls
<1>2. \A d \in Persisted : OpenInv(d)'
  <2>1. OpenInv(c)'
    BY <1>1 DEF OpenInv
  <2> QED BY <1>1, <2>1, OpenKept DEF LiveInv
<1>3. UNCHANGED <<session, catalog>> /\ current' = session[c]
  BY DEF SettleCurrent
<1>4. LiveSessionIsCurrent'
  <2> SUFFICES ASSUME NEW d \in Persisted, pc'[d] = "live" PROVE d = c
    BY <1>3 DEF LiveSessionIsCurrent
  <2> QED BY <1>1, OneSession DEF LiveInv
<1> QED BY <1>1, <1>2, <1>3, <1>4 DEF LiveInv

LEMMA AgentCloses ==
  ASSUME LiveInv, IInv', NEW c \in Persisted, CloseAgent(c)
  PROVE  LiveInv'
<1>0. c \in Calls /\ TypeOK
  BY DEF Calls, LiveInv, IInv
<1>1. UNCHANGED <<opening, listing, closing, session, catalog, current>> /\ opening[c] = "returned"
  BY DEF CloseAgent, storeVars, factory, calls
<1>2. pc'[c] \in {"closing", "closed"} /\ \A d \in Persisted \ {c} : pc'[d] = pc[d]
  <2>1. CASE BeginClose(c)
    BY <1>0, <2>1 DEF BeginClose, At, Go, TypeOK, Calls
  <2>2. CASE pc[c] = "closing" /\ TearDown(c)
    BY <1>0, <2>2 DEF TearDown, CloseNext, Released, Pass, At, Go, TypeOK, Calls
  <2> QED BY <2>1, <2>2 DEF CloseAgent
<1>3. \A d \in Persisted : OpenInv(d)'
  <2>1. OpenInv(c)'
    BY <1>1, <1>2 DEF OpenInv
  <2> QED BY <1>1, <1>2, <2>1, OpenKept DEF LiveInv
<1>4. CallsTyped'
  BY <1>1 DEF LiveInv, CallsTyped
<1> QED BY <1>1, <1>2, <1>3, <1>4, LiveKept

LEMMA LiveStep == LiveInv /\ [StoreNext]_allVars => LiveInv'
<1> SUFFICES ASSUME LiveInv, [StoreNext]_allVars PROVE LiveInv'
  OBVIOUS
<1>1. IInv'
  BY StoreRunsAssembly, AssemblyNextKeeps DEF LiveInv
<1>2. ASSUME NEW c \in Persisted, CallOpen(c) \/ OpenSteps(c) \/ CloseAgent(c) PROVE LiveInv'
  <2>1. CASE CallOpen(c) \/ LoadModels(c) \/ LockToOpen(c) \/ EnsureToOpen(c)
             \/ LeaveAssembly(c) \/ UnlockOpened(c)
    <3>1. UNCHANGED vars
      BY <2>1 DEF CallOpen, LoadModels, LockToOpen, EnsureToOpen, LeaveAssembly, UnlockOpened
    <3> QED BY <1>1, <2>1, <3>1, OpenBesides
  <2>2. CASE EnterAssembly(c)
    <3>1. CASE Begin(c)
      BY <1>1, <2>2, <3>1, OpenAssembles
    <3>2. CASE ~Begin(c)
      BY <1>1, <2>2, <3>2, OpenBesides DEF EnterAssembly
    <3> QED BY <3>1, <3>2
  <2> QED
    BY <1>1, <1>2, <2>1, <2>2, OpenAssembles, OpenSettles, AgentCloses DEF OpenSteps
<1>3. CASE UNCHANGED <<vars, opening, session, catalog, current>> /\ CallsTyped'
  <2>1. \A c \in Persisted : OpenInv(c)'
    BY <1>3, OpenKept DEF LiveInv, vars
  <2> QED BY <1>1, <1>3, <2>1, LiveKept DEF vars
<1>4. ASSUME NEW l \in Listers, CallList(l) \/ ListSteps(l) PROVE LiveInv'
  <2>1. UNCHANGED <<vars, opening, session, catalog, current>>
    BY <1>4 DEF CallList, ListSteps, LockToList, EnsureToList, ReadCatalog, UnlockListed,
       ReadCurrent, ReturnList, factory
  <2>2. CallsTyped'
    <3>1. \E from, to : ListAt(l, from, to)
             /\ to \in {"lock", "ensure", "stores", "read", "unlock", "refuse", "filter",
                         "filtering", "returned", "refused"}
      BY <1>4 DEF CallList, ListSteps, LockToList, EnsureToList, ReadCatalog, UnlockListed,
         ReadCurrent, ReturnList
    <3>2. UNCHANGED <<opening, closing>>
      BY <1>4 DEF CallList, ListSteps, LockToList, EnsureToList, ReadCatalog, UnlockListed,
         ReadCurrent, ReturnList
    <3> QED BY <3>1, <3>2 DEF ListAt, LiveInv, CallsTyped
  <2> QED BY <1>3, <2>1, <2>2
<1>5. ASSUME NEW k \in Closers, CallClose(k) \/ CloseSteps(k) PROVE LiveInv'
  <2>1. UNCHANGED <<vars, opening, session, catalog, current, listing>>
    BY <1>5 DEF CallClose, CloseSteps, LockToClose, CloseBackend, factory
  <2>2. CallsTyped'
    BY <1>5, <2>1 DEF CallClose, CloseSteps, LockToClose, CloseBackend, CloseAt, LiveInv, CallsTyped
  <2> QED BY <1>3, <2>1, <2>2
<1>6. CASE StoreDone \/ UNCHANGED allVars
  <2>1. UNCHANGED <<vars, opening, session, catalog, current, listing, closing>>
    BY <1>6 DEF StoreDone, allVars, storeVars, factory, calls
  <2> QED BY <1>3, <2>1 DEF LiveInv, CallsTyped
<1> QED BY <1>2, <1>4, <1>5, <1>6 DEF StoreNext

LEMMA LiveHolds == StoreSpec => []LiveInv
<1> QED BY LiveInitially, LiveStep, PTL DEF StoreSpec

(* The session of an agent in use is the one the factory counts as current,
   although that is recorded after storeMu is released. *)
THEOREM CurrentIsLive == StoreSpec => []LiveSessionIsCurrent
<1>1. LiveInv => LiveSessionIsCurrent
  BY DEF LiveInv
<1> QED BY <1>1, LiveHolds, PTL

(* The rest of the factory's types. *)
FactoryTyped ==
  /\ storeMu \in Persisted \cup Listers \cup Closers \cup {None}
  /\ closed \in BOOLEAN
  /\ current \in SessionIds \cup {None}

SelectorTyped == selector \in [Persisted -> SessionIds \cup {None}]

LEMMA FactoryStep == LiveInv /\ FactoryTyped /\ [StoreNext]_allVars => FactoryTyped'
<1> SUFFICES ASSUME LiveInv, FactoryTyped, [StoreNext]_allVars PROVE FactoryTyped'
  OBVIOUS
<1> USE DEF FactoryTyped
<1>1. ASSUME NEW c \in Persisted, SettleCurrent(c) PROVE FactoryTyped'
  BY <1>1 DEF SettleCurrent, LiveInv
<1>2. ASSUME NEW c \in Persisted, CallOpen(c) \/ OpenSteps(c) \/ CloseAgent(c)
      PROVE  FactoryTyped'
  BY <1>1, <1>2 DEF CallOpen, OpenSteps, CloseAgent, LoadModels, LockToOpen, EnsureToOpen,
     EnterAssembly, AssemblyStep, LeaveAssembly, UnlockOpened, storeVars, factory
<1>3. ASSUME NEW l \in Listers, CallList(l) \/ ListSteps(l) PROVE FactoryTyped'
  BY <1>3 DEF CallList, ListSteps, LockToList, EnsureToList, ReadCatalog, UnlockListed,
     ReadCurrent, ReturnList, factory
<1>4. ASSUME NEW k \in Closers, CallClose(k) \/ CloseSteps(k) PROVE FactoryTyped'
  BY <1>4 DEF CallClose, CloseSteps, LockToClose, CloseBackend, factory
<1>5. CASE StoreDone \/ UNCHANGED allVars
  BY <1>5 DEF StoreDone, allVars, storeVars, factory
<1> QED BY <1>2, <1>3, <1>4, <1>5 DEF StoreNext

LEMMA SelectorStep == LiveInv /\ SelectorTyped /\ [StoreNext]_allVars => SelectorTyped'
<1> SUFFICES ASSUME LiveInv, SelectorTyped, [StoreNext]_allVars PROVE SelectorTyped'
  OBVIOUS
<1> USE DEF SelectorTyped
<1>1. ASSUME NEW c \in Persisted, CallOpen(c) PROVE SelectorTyped'
  BY <1>1 DEF CallOpen, LiveInv
<1>2. ASSUME NEW c \in Persisted, OpenSteps(c) \/ CloseAgent(c) PROVE SelectorTyped'
  BY <1>2 DEF OpenSteps, CloseAgent, LoadModels, LockToOpen, EnsureToOpen, EnterAssembly,
     AssemblyStep, LeaveAssembly, UnlockOpened, SettleCurrent, storeVars, calls
<1>3. ASSUME NEW l \in Listers, CallList(l) \/ ListSteps(l) PROVE SelectorTyped'
  BY <1>3 DEF CallList, ListSteps, LockToList, EnsureToList, ReadCatalog, UnlockListed,
     ReadCurrent, ReturnList
<1>4. ASSUME NEW k \in Closers, CallClose(k) \/ CloseSteps(k) PROVE SelectorTyped'
  BY <1>4 DEF CallClose, CloseSteps, LockToClose, CloseBackend
<1>5. CASE StoreDone \/ UNCHANGED allVars
  BY <1>5 DEF StoreDone, allVars, storeVars, calls
<1> QED BY <1>1, <1>2, <1>3, <1>4, <1>5 DEF StoreNext

(* What listings have read. *)
BrowserTyped ==
  /\ listed \in [Listers -> SUBSET SessionIds]
  /\ seen \in [Listers -> SessionIds \cup {None}]
  /\ inUse \in [Listers -> SUBSET Persisted]

(* Only listings do. *)
LEMMA OthersDoNotRead ==
  ASSUME \/ \E c \in Persisted : CallOpen(c) \/ OpenSteps(c) \/ CloseAgent(c)
         \/ \E k \in Closers : CallClose(k) \/ CloseSteps(k)
         \/ StoreDone \/ UNCHANGED allVars
  PROVE  UNCHANGED <<listing, listed, seen, inUse>>
<1>1. ASSUME NEW c \in Persisted, CallOpen(c) \/ OpenSteps(c) \/ CloseAgent(c)
      PROVE  UNCHANGED <<listing, listed, seen, inUse>>
  BY <1>1 DEF CallOpen, OpenSteps, CloseAgent, LoadModels, LockToOpen, EnsureToOpen, EnterAssembly,
     AssemblyStep, LeaveAssembly, UnlockOpened, SettleCurrent, storeVars, calls, browser
<1>2. ASSUME NEW k \in Closers, CallClose(k) \/ CloseSteps(k)
      PROVE  UNCHANGED <<listing, listed, seen, inUse>>
  BY <1>2 DEF CallClose, CloseSteps, LockToClose, CloseBackend, browser
<1>3. CASE StoreDone \/ UNCHANGED allVars
  BY <1>3 DEF StoreDone, allVars, storeVars, calls, browser
<1> QED BY <1>1, <1>2, <1>3

LEMMA BrowserStep ==
  LiveInv /\ FactoryTyped /\ BrowserTyped /\ [StoreNext]_allVars => BrowserTyped'
<1> SUFFICES ASSUME LiveInv, FactoryTyped, BrowserTyped, [StoreNext]_allVars PROVE BrowserTyped'
  OBVIOUS
<1>1. ASSUME NEW l \in Listers, ReadCatalog(l) PROVE BrowserTyped'
  BY <1>1 DEF ReadCatalog, BrowserTyped, LiveInv
<1>2. ASSUME NEW l \in Listers, UnlockListed(l) PROVE BrowserTyped'
  BY <1>2 DEF UnlockListed, BrowserTyped
<1>3. ASSUME NEW l \in Listers, ReadCurrent(l) \/ ReturnList(l) PROVE BrowserTyped'
  BY <1>3 DEF ReadCurrent, ReturnList, BrowserTyped, FactoryTyped
<1>4. ASSUME NEW l \in Listers, CallList(l) \/ ListSteps(l) PROVE BrowserTyped'
  BY <1>1, <1>2, <1>3, <1>4 DEF CallList, ListSteps, LockToList, EnsureToList, browser, BrowserTyped
<1> QED BY <1>4, OthersDoNotRead DEF StoreNext, BrowserTyped

LEMMA StoreTypes ==
  ASSUME StoreInv, LiveInv, BrowserTyped, FactoryTyped, SelectorTyped
  PROVE  StoreTypeOK
<1>1. handles \in 0..1
  BY DEF StoreInv, BackendInv
<1> QED
  BY <1>1 DEF StoreTypeOK, StoreInv, CallsTyped, BackendInv, LiveInv, IInv, BrowserTyped,
     FactoryTyped, SelectorTyped

LEMMA TypesInitially == StoreInit => BrowserTyped /\ FactoryTyped /\ SelectorTyped
BY DEF StoreInit, BrowserTyped, FactoryTyped, SelectorTyped

(* The type invariant; the store has at most one backend open at any time. *)
THEOREM StoreTyped == StoreSpec => []StoreTypeOK
<1> QED
  BY TypesInitially, StoreInitially, StoreStep, LiveInitially, LiveStep, BrowserStep, FactoryStep,
     SelectorStep, StoreTypes, PTL DEF StoreSpec

-----------------------------------------------------------------------------
(* What a listing knows of the agents that were in use when List returned to it:
   they are agents still, and the one that still is in use has the session that
   the listing leaves out. *)
HiddenInv ==
  \A l \in Listers : \A c \in inUse[l] :
    /\ pc[c] \in {"live", "closing", "closed"}
    /\ listing[l] = "filtering" /\ pc[c] = "live" => seen[l] = session[c]

(* An agent stays one, with its session. *)
LEMMA AgentStays ==
  ASSUME LiveInv, [StoreNext]_allVars, NEW c \in Persisted, pc[c] \in {"live", "closing", "closed"}
  PROVE  /\ pc'[c] \in {"live", "closing", "closed"}
         /\ pc'[c] = "live" => pc[c] = "live"
         /\ session'[c] = session[c]
<1>0. TypeOK /\ CallsTyped /\ c \in Calls
  BY DEF LiveInv, IInv, Calls
<1>1. opening[c] = "returned"
  BY DEF LiveInv, OpenInv, CallsTyped
<1>2. CASE UNCHANGED <<pc, session>>
  BY <1>2
<1>3. ASSUME NEW d \in Persisted, CallOpen(d) \/ LoadModels(d) \/ LockToOpen(d) \/ EnsureToOpen(d)
                                  \/ LeaveAssembly(d) \/ UnlockOpened(d)
      PROVE  UNCHANGED <<pc, session>>
  BY <1>3 DEF CallOpen, LoadModels, LockToOpen, EnsureToOpen, LeaveAssembly, UnlockOpened, vars
<1>4. ASSUME NEW d \in Persisted, EnterAssembly(d) \/ AssemblyStep(d) \/ SettleCurrent(d)
      PROVE  pc'[c] = pc[c] /\ session'[c] = session[c]
  <2>0. d \in Calls
    BY DEF Calls
  <2>1. d # c
    BY <1>1, <1>4 DEF EnterAssembly, AssemblyStep, SettleCurrent, OpenAt
  <2>2. CASE EnterAssembly(d)
    BY <1>0, <2>0, <2>1, <2>2 DEF EnterAssembly, Begin, Pass, Go, vars, TypeOK
  <2>3. CASE AssemblyStep(d)
    <3>1. pc'[c] = pc[c]
      BY <1>0, <2>0, <2>1, <2>3, AssemblingStays DEF AssemblyStep
    <3>2. session'[c] = session[c]
      BY <2>1, <2>3 DEF AssemblyStep, LiveInv
    <3> QED BY <3>1, <3>2
  <2>4. CASE SettleCurrent(d)
    BY <1>0, <2>0, <2>1, <2>4 DEF SettleCurrent, Return, Pass, Go, TypeOK
  <2> QED BY <1>4, <2>2, <2>3, <2>4
<1>5. ASSUME NEW d \in Persisted, CloseAgent(d)
      PROVE  /\ session' = session
             /\ IF d = c THEN pc'[c] \in {"closing", "closed"} ELSE pc'[c] = pc[c]
  <2>0. d \in Calls
    BY DEF Calls
  <2>1. session' = session
    BY <1>5 DEF CloseAgent, storeVars, calls
  <2>2. CASE BeginClose(d)
    BY <1>0, <2>0, <2>1, <2>2 DEF BeginClose, Go, TypeOK
  <2>3. CASE pc[d] = "closing" /\ TearDown(d)
    BY <1>0, <2>0, <2>1, <2>3 DEF TearDown, CloseNext, Released, Pass, At, Go, TypeOK
  <2> QED BY <1>5, <2>2, <2>3 DEF CloseAgent
<1>6. ASSUME NEW l \in Listers, CallList(l) \/ ListSteps(l)
      PROVE  UNCHANGED <<pc, session>>
  BY <1>6 DEF CallList, ListSteps, LockToList, EnsureToList, ReadCatalog, UnlockListed, ReadCurrent,
     ReturnList, vars
<1>7. ASSUME NEW k \in Closers, CallClose(k) \/ CloseSteps(k)
      PROVE  UNCHANGED <<pc, session>>
  BY <1>7 DEF CallClose, CloseSteps, LockToClose, CloseBackend, vars
<1>8. CASE StoreDone \/ UNCHANGED allVars
  BY <1>2, <1>8 DEF StoreDone, allVars, storeVars, calls, vars
<1>9. ASSUME NEW d \in Persisted, CallOpen(d) \/ OpenSteps(d) \/ CloseAgent(d)
      PROVE  /\ pc'[c] \in {"live", "closing", "closed"}
             /\ pc'[c] = "live" => pc[c] = "live"
             /\ session'[c] = session[c]
  BY <1>3, <1>4, <1>5, <1>9 DEF OpenSteps
<1> QED BY <1>2, <1>6, <1>7, <1>8, <1>9 DEF StoreNext

LEMMA HiddenStep ==
  LiveInv /\ BrowserTyped /\ HiddenInv /\ [StoreNext]_allVars => HiddenInv'
<1> SUFFICES ASSUME LiveInv, BrowserTyped, HiddenInv, [StoreNext]_allVars,
                    NEW l \in Listers, NEW c \in inUse'[l]
             PROVE  /\ pc'[c] \in {"live", "closing", "closed"}
                    /\ listing'[l] = "filtering" /\ pc'[c] = "live" => seen'[l] = session'[c]
  BY DEF HiddenInv
<1>1. CASE listing'[l] = listing[l] /\ seen'[l] = seen[l] /\ inUse'[l] = inUse[l]
  <2>1. c \in Persisted /\ pc[c] \in {"live", "closing", "closed"}
        /\ (listing[l] = "filtering" /\ pc[c] = "live" => seen[l] = session[c])
    BY <1>1 DEF HiddenInv, BrowserTyped
  <2> QED BY <1>1, <2>1, AgentStays
<1>2. ASSUME NEW m \in Listers, CallList(m) \/ ListSteps(m), m # l
      PROVE  listing'[l] = listing[l] /\ seen'[l] = seen[l] /\ inUse'[l] = inUse[l]
  BY <1>2 DEF CallList, ListSteps, LockToList, EnsureToList, ReadCatalog, UnlockListed, ReadCurrent,
     ReturnList, ListAt, browser, LiveInv, CallsTyped, BrowserTyped
<1>3. CASE CallList(l) \/ LockToList(l) \/ EnsureToList(l) \/ ReadCatalog(l)
  <2>1. listing'[l] # "filtering" /\ inUse' = inUse /\ pc' = pc
    BY <1>3 DEF CallList, LockToList, EnsureToList, ReadCatalog, ListAt, browser, vars, LiveInv,
       CallsTyped
  <2> QED BY <2>1 DEF HiddenInv
<1>4. CASE UnlockListed(l)
  <2>1. listing'[l] # "filtering" /\ pc' = pc
        /\ (c \in inUse[l] \/ (c \in Persisted /\ pc[c] = "live"))
    BY <1>4 DEF UnlockListed, ListAt, vars, LiveInv, CallsTyped, BrowserTyped
  <2> QED BY <2>1 DEF HiddenInv
<1>5. CASE ReadCurrent(l)
  <2>1. inUse' = inUse /\ pc' = pc /\ session' = session /\ seen'[l] = current
    BY <1>5 DEF ReadCurrent, vars, BrowserTyped
  <2>2. c \in Persisted /\ pc[c] \in {"live", "closing", "closed"}
    BY <2>1 DEF HiddenInv, BrowserTyped
  <2> QED BY <2>1, <2>2 DEF LiveInv, LiveSessionIsCurrent
<1>6. CASE ReturnList(l)
  <2>1. inUse'[l] = {}
    BY <1>6 DEF ReturnList, BrowserTyped
  <2> QED BY <2>1
<1>7. CASE \E m \in Listers : CallList(m) \/ ListSteps(m)
  BY <1>1, <1>2, <1>3, <1>4, <1>5, <1>6, <1>7 DEF ListSteps
<1>8. CASE UNCHANGED <<listing, listed, seen, inUse>>
  BY <1>1, <1>8
<1> QED BY <1>7, <1>8, OthersDoNotRead DEF StoreNext

LEMMA FilteredHidesTheLive ==
  LiveInv /\ BrowserTyped /\ HiddenInv /\ [StoreNext]_allVars =>
    \A l \in Listers : listing[l] = "filtering" /\ listing'[l] = "returned" =>
      \A c \in inUse[l] : pc[c] = "live" => session[c] \notin listed'[l]
<1> SUFFICES ASSUME LiveInv, BrowserTyped, HiddenInv, [StoreNext]_allVars, NEW l \in Listers,
                    listing[l] = "filtering", listing'[l] = "returned",
                    NEW c \in inUse[l], pc[c] = "live"
             PROVE  session[c] \notin listed'[l]
  OBVIOUS
<1>1. ReturnList(l)
  <2>1. ~UNCHANGED <<listing, listed, seen, inUse>>
    OBVIOUS
  <2>2. PICK m \in Listers : CallList(m) \/ ListSteps(m)
    BY <2>1, OthersDoNotRead DEF StoreNext
  <2>3. m = l
    BY <2>2 DEF CallList, ListSteps, LockToList, EnsureToList, ReadCatalog, UnlockListed,
       ReadCurrent, ReturnList, ListAt, LiveInv, CallsTyped
  <2> QED
    BY <2>2, <2>3 DEF CallList, ListSteps, LockToList, EnsureToList, ReadCatalog, UnlockListed,
       ReadCurrent, ListAt, LiveInv, CallsTyped
<1>2. seen[l] = session[c]
  BY DEF HiddenInv
<1> QED BY <1>1, <1>2 DEF ReturnList, BrowserTyped

(* A listing never offers the session of an agent that has been in use since List
   returned to it, whatever opens, settles and closes between its reading of the
   catalog, of the current session, and its return. *)
THEOREM LiveIsHidden == StoreSpec => ListingsHideTheLive
<1>1. StoreInit => HiddenInv
  BY DEF StoreInit, HiddenInv
<1> QED
  BY <1>1, TypesInitially, LiveInitially, LiveStep, FactoryStep, BrowserStep, HiddenStep,
     FilteredHidesTheLive, PTL DEF StoreSpec, ListingsHideTheLive

=============================================================================
