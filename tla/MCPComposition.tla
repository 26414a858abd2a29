--------------------------- MODULE MCPComposition ---------------------------
(***************************************************************************)
(* A session's MCP servers (internal/app/mcp.go and mcpSessionAssembly of  *)
(* swarm.go).  The manager is built before the session exists, so the gate *)
(* opener and the event publisher it is given are bound to the session     *)
(* later, by attach, step by step, while servers that have been started    *)
(* elicit answers from the human, change their status and give rise to     *)
(* notices.  Manager, session host and human are external: they do what    *)
(* mcp.go says it relies on.                                               *)
(***************************************************************************)
EXTENDS Naturals, Sequences

CONSTANTS Servers,       \* the servers an mcp.json may name
          Elicitations,  \* calls of mcpGateOpener.OpenGate
          Backlog,       \* maxMCPNoticeBacklog
          MaxReports,    \* bound: notices ever reported
          None

ASSUME MCPAssumption ==
  /\ Backlog \in Nat \ {0} /\ MaxReports \in Nat
  /\ None \notin {"unbound", "answer", "error"}

VARIABLES
  managed,     \* the servers of mcp.json; with none there is no manager
  setup,       \* is the session interactive, a GateHost, an EventPublisher
  at,          \* the next step of attach, or of the teardown
  started,     \* Manager.Start has been called
  session,     \* the session is "open" or "shut"
  host,        \* mcpGateOpener.host is set
  target,      \* mcpEventPublisher.target is set
  status,      \* status[s]: what the manager knows of server s
  publishing,  \* publishing[s]: the manager is about to publish status[s]
  shown,       \* shown[s]: the last status of s in the session's event stream
  call,        \* call[e]: where call e of OpenGate is
  gate,        \* gate[e]: the host gate of call e
  result,      \* result[e]: what call e returned
  ctxDone,     \* the calls whose context has ended
  notices,     \* mcpNoticeRecorder.notices; a notice is its number
  dropped,     \* mcpNoticeRecorder.dropped
  reported     \* how many notices were reported

servers == <<status, publishing, shown>>
gates == <<call, gate, result, ctxDone>>
recorder == <<notices, dropped, reported>>
binding == <<managed, setup, at, started, session, host, target>>
vars == <<binding, servers, gates, recorder>>

Statuses == {"configured", "ready", "down"}

TypeOK ==
  /\ managed \subseteq Servers
  /\ setup \in [interactive : BOOLEAN, host : BOOLEAN, publisher : BOOLEAN]
  /\ at \in {"bind", "gates", "events", "start", "starting", "adopt", "attached",
             "failing", "stopping", "closed"}
  /\ started \in BOOLEAN /\ host \in BOOLEAN /\ target \in BOOLEAN
  /\ session \in {"open", "shut"}
  /\ status \in [Servers -> Statuses]
  /\ publishing \in [Servers -> BOOLEAN]
  /\ shown \in [Servers -> Statuses \cup {None}]
  /\ call \in [Elicitations -> {"idle", "entered", "opening", "awaiting", "abandoning",
                                "returned"}]
  /\ gate \in [Elicitations -> {"none", "open", "answered", "closed"}]
  /\ result \in [Elicitations -> {None, "unbound", "answer", "error"}]
  /\ ctxDone \subseteq Elicitations
  /\ notices \in Seq(1..MaxReports)
  /\ dropped \in 0..MaxReports /\ reported \in 0..MaxReports

Init ==
  /\ managed \in SUBSET Servers
  /\ setup \in [interactive : BOOLEAN, host : BOOLEAN, publisher : BOOLEAN]
  /\ at = "bind" /\ started = FALSE /\ session = "open"
  /\ host = FALSE /\ target = FALSE
  /\ status = [s \in Servers |-> "configured"]
  /\ publishing = [s \in Servers |-> FALSE]
  /\ shown = [s \in Servers |-> None]
  /\ call = [e \in Elicitations |-> "idle"]
  /\ gate = [e \in Elicitations |-> "none"]
  /\ result = [e \in Elicitations |-> None]
  /\ ctxDone = {}
  /\ notices = <<>> /\ dropped = 0 /\ reported = 0

-----------------------------------------------------------------------------
(* mcpSessionAssembly.attach *)

Step(from, to) == at = from /\ at' = to

(* mcpEventPublisher.PublishEvent: without a target the event is dropped. *)
Stream(published) == IF target THEN published ELSE shown

NoManager ==
  /\ managed = {} /\ Step("bind", "attached")
  /\ UNCHANGED <<managed, setup, started, session, host, target, servers, gates, recorder>>

(* BindSession publishes the status of every server. *)
BindSession ==
  /\ managed # {}
  /\ \/ Step("bind", "gates") /\ shown' = Stream([s \in Servers |-> IF s \in managed THEN status[s] ELSE None])
     \/ Step("bind", "failing") /\ UNCHANGED shown
  /\ UNCHANGED <<managed, setup, started, session, host, target, status, publishing, gates, recorder>>

(* Seeded fault of BindGates: headless sessions are bound too. *)
BindGatesAlways ==
  /\ Step("gates", "events")
  /\ host' = setup.host
  /\ UNCHANGED <<managed, setup, started, session, target, servers, gates, recorder>>

BindGates ==
  /\ Step("gates", "events")
  /\ host' = (setup.interactive /\ setup.host)
  /\ UNCHANGED <<managed, setup, started, session, target, servers, gates, recorder>>

(* Seeded fault of BindEvents: the servers are running already. *)
BindEventsLate ==
  /\ \/ Step("events", "start") /\ started' = TRUE /\ UNCHANGED target
     \/ at = "start" /\ UNCHANGED <<at, started>> /\ target' = setup.publisher
  /\ UNCHANGED <<managed, setup, session, host, servers, gates, recorder>>

BindEvents ==
  /\ Step("events", "start")
  /\ target' = setup.publisher
  /\ UNCHANGED <<managed, setup, started, session, host, servers, gates, recorder>>

(* Manager.Start returns while servers are still connecting, or fails. *)
CallStart ==
  /\ Step("start", "starting")
  /\ started' = TRUE
  /\ UNCHANGED <<managed, setup, session, host, target, servers, gates, recorder>>

StartReturns ==
  /\ Step("starting", "adopt") \/ Step("starting", "failing")
  /\ UNCHANGED <<managed, setup, started, session, host, target, servers, gates, recorder>>

(* The adopter is started; what its eager Install comes to is discarded. *)
StartAdoption ==
  /\ Step("adopt", "attached") \/ Step("adopt", "failing")
  /\ UNCHANGED <<managed, setup, started, session, host, target, servers, gates, recorder>>

(* A failed attach and RuntimeAgent.Close shut the session down first.  The
   session ends its open gates with it. *)
ShutSession ==
  /\ Step("failing", "stopping") \/ Step("attached", "stopping")
  /\ session' = "shut"
  /\ gate' = [e \in Elicitations |-> IF gate[e] = "open" THEN "closed" ELSE gate[e]]
  /\ UNCHANGED <<managed, setup, started, host, target, servers, call, result, ctxDone, recorder>>

CloseManager ==
  /\ Step("stopping", "closed")
  /\ UNCHANGED <<managed, setup, started, session, host, target, servers, gates, recorder>>

-----------------------------------------------------------------------------
(* The manager's side *)

Running == started /\ at # "closed"

StatusChanges(s) ==
  /\ Running /\ s \in managed /\ ~publishing[s]
  /\ \E new \in {"ready", "down"} \ {status[s]} : status' = [status EXCEPT ![s] = new]
  /\ publishing' = [publishing EXCEPT ![s] = TRUE]
  /\ UNCHANGED <<binding, shown, gates, recorder>>

PublishEvent(s) ==
  /\ publishing[s]
  /\ publishing' = [publishing EXCEPT ![s] = FALSE]
  /\ shown' = IF session = "open" THEN Stream([shown EXCEPT ![s] = status[s]]) ELSE shown
  /\ UNCHANGED <<binding, status, gates, recorder>>

(* Seeded fault of Report: a full backlog drops the notice that comes. *)
ReportNewestLost ==
  /\ managed # {} /\ reported < MaxReports
  /\ reported' = reported + 1
  /\ IF Len(notices) >= Backlog
     THEN dropped' = dropped + 1 /\ UNCHANGED notices
     ELSE notices' = Append(notices, reported + 1) /\ UNCHANGED dropped
  /\ UNCHANGED <<binding, servers, gates>>

(* A full backlog drops its oldest notice, whoever reports. *)
Report ==
  /\ managed # {} /\ reported < MaxReports
  /\ reported' = reported + 1
  /\ IF Len(notices) >= Backlog
     THEN notices' = Append(Tail(notices), reported + 1) /\ dropped' = dropped + 1
     ELSE notices' = Append(notices, reported + 1) /\ UNCHANGED dropped
  /\ UNCHANGED <<binding, servers, gates>>

-----------------------------------------------------------------------------
(* mcpGateOpener.OpenGate, called for a running server *)

CallAt(e, from, to) == call[e] = from /\ call' = [call EXCEPT ![e] = to]
Returns(e, from, value) ==
  CallAt(e, from, "returned") /\ result' = [result EXCEPT ![e] = value]

Elicit(e) ==
  /\ Running
  /\ CallAt(e, "idle", "entered")
  /\ UNCHANGED <<binding, servers, gate, result, ctxDone, recorder>>

ReadHost(e) ==
  /\ \/ host /\ CallAt(e, "entered", "opening") /\ UNCHANGED result
     \/ ~host /\ Returns(e, "entered", "unbound")
  /\ UNCHANGED <<binding, servers, gate, ctxDone, recorder>>

OpenHostGate(e) ==
  /\ \/ /\ session = "open" /\ CallAt(e, "opening", "awaiting")
        /\ gate' = [gate EXCEPT ![e] = "open"]
        /\ UNCHANGED result
     \/ Returns(e, "opening", "error") /\ UNCHANGED gate
  /\ UNCHANGED <<binding, servers, ctxDone, recorder>>

(* Seeded fault of AwaitGateAnswer: it is called again after an error. *)
AwaitGateAnswerAgain(e) ==
  /\ \/ gate[e] = "answered" /\ Returns(e, "awaiting", "answer")
     \/ /\ e \in ctxDone \/ session = "shut"
        /\ call[e] = "awaiting" /\ UNCHANGED <<call, result>>
  /\ UNCHANGED <<binding, servers, gate, ctxDone, recorder>>

AwaitGateAnswer(e) ==
  /\ \/ gate[e] = "answered" /\ Returns(e, "awaiting", "answer")
     \/ /\ e \in ctxDone \/ session = "shut"
        /\ CallAt(e, "awaiting", "abandoning")
        /\ UNCHANGED result
  /\ UNCHANGED <<binding, servers, gate, ctxDone, recorder>>

(* Seeded fault of CloseGate: it is given the context of the call. *)
CloseGateWithCtx(e) ==
  /\ Returns(e, "abandoning", "error")
  /\ gate' = [gate EXCEPT ![e] = IF @ = "open" /\ e \notin ctxDone THEN "closed" ELSE @]
  /\ UNCHANGED <<binding, servers, ctxDone, recorder>>

(* The gate is withdrawn, whatever the call's context says.  Its error is
   discarded (mcp.go:327); here it fails only of a gate that is not open any more.
   A host that could not close an open gate would leave it to the session's end. *)
CloseGate(e) ==
  /\ Returns(e, "abandoning", "error")
  /\ gate' = [gate EXCEPT ![e] = IF @ = "open" THEN "closed" ELSE @]
  /\ UNCHANGED <<binding, servers, ctxDone, recorder>>

OpenGate(e) == ReadHost(e) \/ OpenHostGate(e) \/ AwaitGateAnswer(e) \/ CloseGate(e)

HumanAnswers(e) ==
  /\ gate[e] = "open"
  /\ gate' = [gate EXCEPT ![e] = "answered"]
  /\ UNCHANGED <<binding, servers, call, result, ctxDone, recorder>>

CtxEnds(e) ==
  /\ call[e] \notin {"idle", "returned"} /\ e \notin ctxDone
  /\ ctxDone' = ctxDone \cup {e}
  /\ UNCHANGED <<binding, servers, call, gate, result, recorder>>

-----------------------------------------------------------------------------
Attach == NoManager \/ BindSession \/ BindGates \/ BindEvents \/ CallStart \/ StartReturns \/ StartAdoption

Close == ShutSession \/ CloseManager

Done ==
  /\ at = "closed" /\ \A e \in Elicitations : call[e] \in {"idle", "returned"}
  /\ UNCHANGED vars

Next ==
  \/ Attach \/ Close \/ Report
  \/ \E s \in Servers : StatusChanges(s) \/ PublishEvent(s)
  \/ \E e \in Elicitations : Elicit(e) \/ OpenGate(e) \/ HumanAnswers(e) \/ CtxEnds(e)
  \/ Done

Spec == Init /\ [][Next]_vars

(* A call of OpenGate runs on, and what it calls answers: AwaitGateAnswer once
   there is an answer, its context has ended or the session is gone. *)
FairSpec == Spec /\ \A e \in Elicitations : WF_vars(OpenGate(e))

-----------------------------------------------------------------------------
(* A caller that gives up never leaves "an orphaned open gate a human could
   still answer into the void" (OpenGate, mcp.go:294-298). *)
NoOrphanedGate == \A e \in Elicitations : call[e] = "returned" => gate[e] # "open"

(* A headless session never asks a human, and an interactive one never refuses
   an elicitation because it came before the host was bound: servers are only
   started afterwards (mcpGateOpenerUnboundError, mcp.go:336-345). *)
OnlyHumansAreAsked ==
  \A e \in Elicitations :
    /\ ~setup.interactive => gate[e] = "none"
    /\ setup.interactive /\ setup.host => result[e] # "unbound"

(* No status a started server ever takes is lost on the way to the stream of a
   session that can publish: what the stream shows last is the status the
   manager has, unless that is just being published or the session is gone. *)
StreamFollowsServers ==
  setup.publisher /\ session = "open" =>
    \A s \in managed :
      status[s] # "configured" /\ ~publishing[s] => shown[s] = status[s]

(* The recorder keeps just the newest notices, in order, and counts exactly
   the ones it dropped (mcpNoticeRecorder.Report, mcp.go:453-468). *)
NewestNoticesKept ==
  /\ notices = [i \in 1..Len(notices) |-> dropped + i]
  /\ dropped + Len(notices) = reported
  /\ Len(notices) <= Backlog
  /\ dropped > 0 => Len(notices) = Backlog

(* An elicitation whose context has ended, or whose session is gone, returns. *)
GateCallsReturn ==
  \A e \in Elicitations :
    (call[e] # "idle" /\ (e \in ctxDone \/ session = "shut")) ~> (call[e] = "returned")

(* "BindSession republishes every binding's CURRENT status the moment there is
   somewhere to publish it.  So the session's event stream opens knowing the
   truth about every server" (mcpEventPublisher, mcp.go:369-372): attach calls
   BindSession before it binds the publisher, so that is dropped. *)
StreamOpensKnowing ==
  target => \A s \in managed : shown[s] # None

=============================================================================
