------------------------ MODULE ProcessAdapterProofs ------------------------
(***************************************************************************)
(* Safety of ProcessAdapter for any number of Wait and Signal callers, any *)
(* capacity of the sandbox's channel and any number of activities.         *)
(***************************************************************************)
EXTENDS ProcessAdapter, SequenceTheorems, TLAPS

-----------------------------------------------------------------------------
(* Severities and reasons *)

(* mapProcessSignal ranks the three valid kinds 1 to 3. *)
LEMMA SeverityFacts ==
  /\ Severity \in [AnyKind -> 0..3]
  /\ \A k \in SignalKinds : Severity[k] \in 1..3
BY DEF Severity, AnyKind, SignalKinds

(* deriveReason always answers with a reason, and the severity that reason
   blames is the recorded one exactly for a death by signal. *)
LEMMA ReasonFacts ==
  ASSUME NEW code \in Int, NEW recorded \in 0..3
  PROVE  /\ DeriveReason(code, recorded) \in Reasons
         /\ Blamed(DeriveReason(code, recorded)) = IF code = -1 THEN recorded ELSE 0
BY DEF DeriveReason, Blamed, Reasons

(* Only a reason blames anything; the errors of Wait blame nothing. *)
LEMMA BlamedFacts ==
  /\ \A r \in WaitResults : Blamed(r) \in 0..3
  /\ \A r \in WaitResults : Blamed(r) > 0 => r \in Reasons
BY DEF Blamed, WaitResults, Reasons

(* translateActivity never lets an invalid sandbox kind through. *)
LEMMA TranslatedType ==
  ASSUME NEW k PROVE TranslateActivity(k) \in OutKinds
BY DEF TranslateActivity, OutKinds

-----------------------------------------------------------------------------
(* Every step of a caller, the pump or the sandbox keeps the types. *)
LEMMA TypeStep == TypeOK /\ [Next]_vars => TypeOK'
<1> SUFFICES ASSUME TypeOK, [Next]_vars PROVE TypeOK'
  OBVIOUS
<1> USE AdapterAssumption DEF TypeOK
<1>1. CASE Start \/ Release
  BY <1>1 DEF Start, Release, pumpVars, waitVars, signalVars
<1>2. ASSUME NEW code \in ExitCodes, SelfExit(code) PROVE TypeOK'
  BY <1>2 DEF SelfExit, pumpVars, waitVars, signalVars
<1>3. CASE SignalDeath \/ ForeignDeath \/ SandboxFails
  BY <1>3 DEF SignalDeath, ForeignDeath, SandboxFails, pumpVars, waitVars, signalVars
<1>4. ASSUME NEW k \in SourceKinds, Emit(k) PROVE TypeOK'
  <2>1. /\ Append(source, k) \in Seq(SourceKinds)
        /\ Len(Append(source, k)) = Len(source) + 1
        /\ Append(emitted, k) \in Seq(SourceKinds)
    OBVIOUS
  <2>2. Len(source) \in Nat
    OBVIOUS
  <2>3. Len(source) + 1 <= SourceCap
    BY <1>4, <2>2 DEF Emit
  <2> QED
    BY <1>4, <2>1, <2>3 DEF Emit, sandboxVars, waitVars, signalVars
<1>5. CASE CloseSource
  BY <1>5 DEF CloseSource, sandboxVars, waitVars, signalVars
<1>6. CASE PumpReceive
  <2>1. Tail(source) \in Seq(SourceKinds) /\ Len(Tail(source)) = Len(source) - 1
    BY <1>6 DEF PumpReceive
  <2>2. <<TranslateActivity(Head(source))>> \in Seq(OutKinds)
    BY TranslatedType
  <2>3. Len(source) \in Nat
    OBVIOUS
  <2> QED
    BY <1>6, <2>1, <2>2, <2>3 DEF PumpReceive, sandboxVars, waitVars, signalVars
<1>7. CASE Deliver
  BY <1>7 DEF Deliver, sandboxVars, waitVars, signalVars
<1>8. CASE PumpCloseActivities \/ PumpCloseEnd
  BY <1>8 DEF PumpCloseActivities, PumpCloseEnd, sandboxVars, waitVars, signalVars
<1>9. ASSUME NEW w \in Waiters, CtxEnds(w) \/ WaitCall(w) \/ WaitResult(w)
      PROVE  TypeOK'
  <2>1. CASE CtxEnds(w)
    BY <2>1 DEF CtxEnds, sandboxVars, pumpVars, signalVars
  <2>2. CASE WaitCall(w)
    BY <2>2 DEF WaitCall, WaitSteps, sandboxVars, pumpVars, signalVars
  <2>3. CASE WaitResult(w)
    BY <2>3 DEF WaitResult, WaitSteps, sandboxVars, pumpVars, signalVars
  <2> QED BY <1>9, <2>1, <2>2, <2>3
<1>10. ASSUME NEW w \in Waiters, WaitCtxError(w) \/ WaitFailed(w)
       PROVE  TypeOK'
  <2>1. PICK r \in {"ctxError", "waitFailed"} : WaitError(w, r)
    BY <1>10 DEF WaitCtxError, WaitFailed
  <2>2. r \in WaitResults /\ "returned" \in WaitSteps
    BY DEF WaitResults, WaitSteps
  <2>3. wpc' \in [Waiters -> WaitSteps] /\ wres' \in [Waiters -> WaitResults]
    BY <2>1, <2>2 DEF WaitError
  <2> QED
    BY <2>1, <2>3 DEF WaitError, sandboxVars, pumpVars, signalVars
<1>11. ASSUME NEW w \in Waiters, WaitClassify(w) \/ WaitReturn(w) PROVE TypeOK'
  <2>1. CASE WaitClassify(w)
    <3>1. DeriveReason(exitCode, signalState) \in {"none"} \cup Reasons
      BY ReasonFacts
    <3> QED
      BY <2>1, <3>1 DEF WaitClassify, WaitSteps, sandboxVars, pumpVars, signalVars
  <2>2. CASE WaitReturn(w)
    <3>1. derived[w] \in WaitResults
      BY DEF WaitResults
    <3> QED
      BY <2>2, <3>1 DEF WaitReturn, WaitSteps, sandboxVars, pumpVars, signalVars
  <2> QED
    BY <1>11, <2>1, <2>2
<1>12. ASSUME NEW s \in Signallers, NEW k \in AnyKind, SignalCall(s, k)
       PROVE  TypeOK'
  BY <1>12 DEF SignalCall, SignalGoto, sandboxVars, pumpVars, waitVars
<1>13. ASSUME NEW s \in Signallers, SandboxSignals(s) PROVE TypeOK'
  <2>1. Severity[skind[s]] \in 0..3
    BY SeverityFacts
  <2> QED
    BY <1>13, <2>1 DEF SandboxSignals, SignalGoto, pumpVars, waitVars
<1>14. ASSUME NEW s \in Signallers, SandboxRefuses(s) PROVE TypeOK'
  BY <1>14 DEF SandboxRefuses, SignalGoto, sandboxVars, pumpVars, waitVars
<1>15. ASSUME NEW s \in Signallers, RecordLoad(s) PROVE TypeOK'
  BY <1>15 DEF RecordLoad, SignalGoto, sandboxVars, pumpVars, waitVars
<1>16. ASSUME NEW s \in Signallers, RecordSwap(s) PROVE TypeOK'
  <2>1. Severity[skind[s]] \in 0..3
    BY SeverityFacts
  <2> QED
    BY <1>16, <2>1 DEF RecordSwap, SignalGoto, sandboxVars, pumpVars, waitVars
<1>17. CASE UNCHANGED vars
  BY <1>17 DEF vars, sandboxVars, pumpVars, waitVars, signalVars
<1> QED
  BY <1>1, <1>2, <1>3, <1>4, <1>5, <1>6, <1>7, <1>8, <1>9, <1>10, <1>11,
     <1>12, <1>13, <1>14, <1>15, <1>16, <1>17 DEF Next, Sandbox, Pump, Wait, Signal, Done

(* Whatever the callers and the sandbox do, every variable of processAdapter
   and of its callers keeps to its range. *)
THEOREM TypeCorrect == Spec => []TypeOK
<1>1. Init => TypeOK
  <2>1. Len(<<>>) = 0 /\ 0 <= SourceCap
    BY AdapterAssumption
  <2>2. <<>> \in Seq(SourceKinds) /\ <<>> \in Seq(OutKinds)
    OBVIOUS
  <2>3. "none" \in WaitResults /\ "invalid" \in AnyKind
    BY DEF WaitResults, AnyKind
  <2> SUFFICES ASSUME Init PROVE TypeOK
    OBVIOUS
  <2>4. /\ source \in Seq(SourceKinds) /\ held \in Seq(OutKinds)
        /\ emitted \in Seq(SourceKinds) /\ delivered \in Seq(OutKinds)
    BY <2>2 DEF Init
  <2>5. Len(source) <= SourceCap /\ Len(held) <= 1
    BY <2>1 DEF Init
  <2>6. /\ wpc \in [Waiters -> WaitSteps]
        /\ derived \in [Waiters -> {"none"} \cup Reasons]
        /\ earlier \in [Waiters -> SUBSET Waiters]
        /\ wres \in [Waiters -> WaitResults]
        /\ spc \in [Signallers -> {"idle", "sandbox", "load", "cas", "ok", "failed"}]
        /\ skind \in [Signallers -> AnyKind]
        /\ scur \in [Signallers -> 0..3]
    BY <2>3 DEF Init, WaitSteps
  <2>7. /\ phase \in {"prepared", "started", "released"}
        /\ life \in {"running", "exited", "failed"}
        /\ exitCode \in ExitCodes \cup {-1, 0}
        /\ cause \in {"none", "self", "signal", "foreign"}
        /\ signalState \in 0..3
    BY DEF Init
  <2>8. dispatched \subseteq 0..3 /\ ctxDone \subseteq Waiters
    BY DEF Init
  <2>9. sourceClosed \in BOOLEAN /\ activitiesClosed \in BOOLEAN /\ activitiesEnd \in BOOLEAN
    BY DEF Init
  <2> QED
    BY <2>4, <2>5, <2>6, <2>7, <2>8, <2>9 DEF TypeOK
<1>2. QED
  BY <1>1, TypeStep, PTL DEF Spec

-----------------------------------------------------------------------------
(* Sequences of activities *)

(* Translating a sequence of activities keeps its length and gives output kinds. *)
LEMMA TranslatedSeq ==
  ASSUME NEW s \in Seq(SourceKinds)
  PROVE  /\ Translated(s) \in Seq(OutKinds)
         /\ Len(Translated(s)) = Len(s)
         /\ \A i \in 1..Len(s) : Translated(s)[i] = TranslateActivity(s[i])
<1>1. DOMAIN s = 1..Len(s) /\ Len(s) \in Nat
  BY LenProperties
<1> QED
  BY <1>1, TranslatedType DEF Translated

(* Nothing translates to nothing. *)
LEMMA TranslatedEmpty == Translated(<<>>) = <<>> /\ <<>> \o Translated(<<>>) = <<>>
<1>1. Translated(<<>>) = <<>>
  BY TranslatedSeq, EmptySeq DEF Translated
<1> QED
  BY <1>1, ConcatEmptySeq, EmptySeq

(* Translating element by element commutes with the sandbox's report ... *)
LEMMA TranslatedAppend ==
  ASSUME NEW s \in Seq(SourceKinds), NEW k \in SourceKinds
  PROVE  Translated(Append(s, k)) = Append(Translated(s), TranslateActivity(k))
<1> DEFINE left == Translated(Append(s, k))
           right == Append(Translated(s), TranslateActivity(k))
<1>1. Append(s, k) \in Seq(SourceKinds) /\ Len(Append(s, k)) = Len(s) + 1
  BY AppendProperties
<1>2. left \in Seq(OutKinds) /\ Len(left) = Len(s) + 1
  BY <1>1, TranslatedSeq
<1>3. right \in Seq(OutKinds) /\ Len(right) = Len(s) + 1
  BY TranslatedSeq, TranslatedType, AppendProperties
<1>4. ASSUME NEW i \in 1..Len(left) PROVE left[i] = right[i]
  <2>1. i \in 1..(Len(s) + 1) /\ Len(s) \in Nat
    BY <1>2, LenProperties
  <2>2. left[i] = TranslateActivity(Append(s, k)[i])
    BY <1>1, <2>1, TranslatedSeq
  <2>3. CASE i = Len(s) + 1
    BY <2>1, <2>2, <2>3, TranslatedSeq
  <2>4. CASE i \in 1..Len(s)
    BY <2>1, <2>2, <2>4, TranslatedSeq
  <2>5. i = Len(s) + 1 \/ i \in 1..Len(s)
    BY <2>1
  <2> QED
    BY <2>3, <2>4, <2>5
<1> QED
  BY <1>2, <1>3, <1>4, SeqEqual

(* ... and with the pump's receive from the front of the channel. *)
LEMMA TranslatedHead ==
  ASSUME NEW s \in Seq(SourceKinds), s # <<>>
  PROVE  Translated(s) = <<TranslateActivity(Head(s))>> \o Translated(Tail(s))
<1> DEFINE first == <<TranslateActivity(Head(s))>>
           right == first \o Translated(Tail(s))
<1>1. Tail(s) \in Seq(SourceKinds) /\ Len(Tail(s)) = Len(s) - 1 /\ Len(s) \in Nat \ {0}
  BY HeadTailProperties, EmptySeq
<1>2. first \in Seq(OutKinds) /\ Len(first) = 1
  BY TranslatedType
<1>3. Translated(Tail(s)) \in Seq(OutKinds) /\ Len(Translated(Tail(s))) = Len(s) - 1
  BY <1>1, TranslatedSeq
<1>4. right \in Seq(OutKinds) /\ Len(right) = Len(s)
  <2>1. right \in Seq(OutKinds) /\ Len(right) = Len(first) + Len(Translated(Tail(s)))
    BY <1>2, <1>3, ConcatProperties
  <2>2. Len(first) + Len(Translated(Tail(s))) = Len(s)
    <3>1. ASSUME NEW a, NEW b, NEW n \in Nat, a = 1, b = n - 1 PROVE a + b = n
      BY <3>1
    <3>2. Len(first) = 1 /\ Len(Translated(Tail(s))) = Len(s) - 1 /\ Len(s) \in Nat
      BY <1>1, <1>2, <1>3
    <3> HIDE DEF first
    <3> QED
      BY <3>1, <3>2
  <2> HIDE DEF right, first
  <2> QED
    BY <2>1, <2>2
<1>5. Translated(s) \in Seq(OutKinds) /\ Len(Translated(s)) = Len(s)
  BY TranslatedSeq
<1>6. ASSUME NEW i \in 1..Len(s) PROVE Translated(s)[i] = right[i]
  <2>1. Translated(s)[i] = TranslateActivity(s[i])
    BY TranslatedSeq
  <2>2. CASE i = 1
    <3>1. i \in 1..(Len(first) + Len(Translated(Tail(s)))) /\ i <= Len(first)
      BY <1>1, <1>2, <1>3, <2>2
    <3>2. right[i] = first[i]
      BY <1>2, <1>3, <3>1, ConcatProperties
    <3>3. first[i] = TranslateActivity(Head(s)) /\ Head(s) = s[i]
      BY <1>1, <2>2
    <3> QED
      BY <2>1, <3>2, <3>3
  <2>3. CASE i # 1
    <3>1. i - 1 \in 1..Len(Tail(s)) /\ i \in 1..(1 + (Len(s) - 1)) /\ ~(i <= 1)
      BY <1>1, <2>3
    <3>2. right[i] = Translated(Tail(s))[i - 1]
      BY <1>2, <1>3, <3>1, ConcatProperties
    <3>3. Translated(Tail(s))[i - 1] = TranslateActivity(Tail(s)[i - 1])
      BY <1>1, <3>1, TranslatedSeq
    <3>4. Tail(s)[i - 1] = s[i]
      BY <1>1, <3>1
    <3> QED
      BY <2>1, <3>2, <3>3, <3>4
  <2> QED
    BY <2>2, <2>3
<1> HIDE DEF right
<1>7. \A i \in 1..Len(Translated(s)) : Translated(s)[i] = right[i]
  BY <1>5, <1>6
<1>8. Translated(s) = right
  BY <1>4, <1>5, <1>7, SeqEqual
<1> QED
  BY <1>8 DEF right

-----------------------------------------------------------------------------
(* The stream of activities *)

\* The conservation law of StreamInv, on its own.
NothingLost == delivered \o held \o Translated(source) = Translated(emitted)

(* Conservation when the sandbox reports: the new activity is in its channel. *)
LEMMA EmitLosesNothing ==
  ASSUME TypeOK, NothingLost, NEW k \in SourceKinds, Emit(k) PROVE NothingLost'
<1> DEFINE out == TranslateActivity(k)
<1>1. /\ delivered \o held \in Seq(OutKinds)
      /\ Translated(source) \in Seq(OutKinds) /\ Translated(emitted) \in Seq(OutKinds)
      /\ out \in OutKinds
  BY ConcatProperties, TranslatedSeq, TranslatedType DEF TypeOK
<1>2. Translated(source') = Append(Translated(source), out)
  BY TranslatedAppend DEF Emit, TypeOK
<1>3. Translated(emitted') = Append(Translated(emitted), out)
  BY TranslatedAppend DEF Emit, TypeOK
<1>4. ASSUME NEW a \in Seq(OutKinds), NEW b \in Seq(OutKinds)
      PROVE  a \o Append(b, out) = Append(a \o b, out)
  BY <1>1, ConcatProperties, AppendProperties
<1>5. (delivered \o held) \o Append(Translated(source), out)
        = Append((delivered \o held) \o Translated(source), out)
  BY <1>1, <1>4
<1>6. delivered' = delivered /\ held' = held
  BY DEF Emit
<1> QED
  BY <1>2, <1>3, <1>5, <1>6 DEF NothingLost

(* Conservation when the pump takes one: it moves from the channel to held. *)
LEMMA ReceiveLosesNothing ==
  ASSUME TypeOK, NothingLost, PumpReceive PROVE NothingLost'
<1> DEFINE first == <<TranslateActivity(Head(source))>>
           rest == Translated(Tail(source))
<1>1. source # <<>> /\ held = <<>> /\ held' = first /\ source' = Tail(source)
      /\ delivered' = delivered /\ emitted' = emitted
  BY DEF PumpReceive
<1>2. Translated(source) = first \o rest
  BY <1>1, TranslatedHead DEF TypeOK
<1>3. delivered \in Seq(OutKinds) /\ first \in Seq(OutKinds) /\ rest \in Seq(OutKinds)
  <2>1. first \in Seq(OutKinds)
    BY TranslatedType
  <2>2. Tail(source) \in Seq(SourceKinds)
    BY <1>1, HeadTailProperties DEF TypeOK
  <2>3. rest \in Seq(OutKinds)
    BY <2>2, TranslatedSeq
  <2> QED
    BY <2>1, <2>3 DEF TypeOK
<1> HIDE DEF first, rest
<1>4. delivered \o <<>> = delivered
  BY <1>3, ConcatEmptySeq
<1>5. delivered \o (first \o rest) = (delivered \o first) \o rest
  <2>1. \A s, t, u \in Seq(OutKinds) : (s \o t) \o u = s \o (t \o u)
    BY ConcatAssociative
  <2> QED BY <1>3, <2>1, Zenon
<1>6. Translated(source') = rest
  BY <1>1 DEF rest
<1>7. Translated(emitted) = delivered \o (first \o rest)
  BY <1>1, <1>2, <1>4 DEF NothingLost
<1>8. Translated(emitted') = Translated(emitted)
  BY <1>1
<1> QED
  BY <1>1, <1>5, <1>6, <1>7, <1>8 DEF NothingLost

(* Conservation when the consumer takes one: it moves from held to delivered. *)
LEMMA DeliverLosesNothing ==
  ASSUME TypeOK, NothingLost, Deliver PROVE NothingLost'
<1>1. /\ delivered' = delivered \o held /\ held' = <<>>
      /\ source' = source /\ emitted' = emitted
  BY DEF Deliver
<1>2. delivered \o held \in Seq(OutKinds)
  BY ConcatProperties DEF TypeOK
<1>3. (delivered \o held) \o <<>> = delivered \o held
  BY <1>2, ConcatEmptySeq
<1>4. Translated(source') = Translated(source) /\ Translated(emitted') = Translated(emitted)
  BY <1>1
<1> QED
  BY <1>1, <1>3, <1>4 DEF NothingLost

(* StreamInv is inductive. *)
LEMMA StreamStep == TypeOK /\ StreamInv /\ [Next]_vars => StreamInv'
<1> SUFFICES ASSUME TypeOK, StreamInv, [Next]_vars PROVE StreamInv'
  OBVIOUS
<1>1. NothingLost
  BY DEF StreamInv, NothingLost
<1>2. ASSUME pumpVars' = pumpVars, phase' = phase, wres' = wres, derived' = derived,
             \A w \in Waiters : /\ wpc[w] = "returned" => wpc'[w] = "returned"
                                /\ wpc'[w] = "classified" => wpc[w] = "classified"
      PROVE  StreamInv'
  <2>1. /\ source' = source /\ sourceClosed' = sourceClosed /\ held' = held
        /\ activitiesClosed' = activitiesClosed /\ activitiesEnd' = activitiesEnd
        /\ emitted' = emitted /\ delivered' = delivered
    BY <1>2 DEF pumpVars
  <2>2. Translated(source') = Translated(source) /\ Translated(emitted') = Translated(emitted)
    BY <2>1
  <2> QED
    BY <1>2, <2>1, <2>2 DEF StreamInv
<1>3. ASSUME NothingLost', sandboxVars' = sandboxVars, waitVars' = waitVars,
             activitiesEnd' = activitiesEnd, activitiesClosed' = activitiesClosed,
             ~activitiesClosed
      PROVE  StreamInv'
  BY <1>3 DEF StreamInv, NothingLost, sandboxVars, waitVars
<1>4. CASE Start
  <2>1. ~activitiesClosed
    BY <1>4 DEF Start, StreamInv
  <2>2. Translated(source') = Translated(source) /\ Translated(emitted') = Translated(emitted)
    BY <1>4 DEF Start
  <2> QED
    BY <1>4, <2>1, <2>2 DEF Start, StreamInv, waitVars
<1>5. CASE Release
  <2>1. /\ source' = source /\ sourceClosed' = sourceClosed /\ held' = held
        /\ activitiesClosed' = activitiesClosed /\ activitiesEnd' = activitiesEnd
        /\ emitted' = emitted /\ delivered' = delivered /\ wres' = wres
        /\ wpc' = wpc /\ derived' = derived /\ phase' = "released"
    BY <1>5 DEF Release, pumpVars, waitVars
  <2>2. Translated(source') = Translated(source) /\ Translated(emitted') = Translated(emitted)
    BY <2>1
  <2> QED
    BY <2>1, <2>2 DEF StreamInv
<1>6. ASSUME NEW code \in ExitCodes, SelfExit(code) PROVE StreamInv'
  BY <1>2, <1>6 DEF SelfExit, waitVars
<1>7. CASE SignalDeath \/ ForeignDeath \/ SandboxFails
  BY <1>2, <1>7 DEF SignalDeath, ForeignDeath, SandboxFails, waitVars
<1>8. ASSUME NEW k \in SourceKinds, Emit(k) PROVE StreamInv'
  <2>1. ~activitiesClosed
    BY <1>8 DEF Emit, StreamInv
  <2>2. NothingLost'
    BY <1>1, <1>8, EmitLosesNothing
  <2> QED
    BY <1>3, <1>8, <2>1, <2>2 DEF Emit
<1>9. CASE CloseSource
  <2>1. Translated(source') = Translated(source) /\ Translated(emitted') = Translated(emitted)
    BY <1>9 DEF CloseSource
  <2> QED
    BY <1>9, <2>1 DEF CloseSource, StreamInv, sandboxVars, waitVars
<1>10. CASE PumpReceive
  <2>1. ~activitiesClosed
    BY <1>10 DEF PumpReceive, StreamInv
  <2>2. NothingLost'
    BY <1>1, <1>10, ReceiveLosesNothing
  <2> QED
    BY <1>3, <1>10, <2>1, <2>2 DEF PumpReceive
<1>11. CASE Deliver
  <2>1. ~activitiesClosed
    BY <1>11 DEF Deliver, StreamInv
  <2>2. NothingLost'
    BY <1>1, <1>11, DeliverLosesNothing
  <2> QED
    BY <1>3, <1>11, <2>1, <2>2 DEF Deliver
<1>12. CASE PumpCloseActivities \/ PumpCloseEnd
  <2>1. Translated(source') = Translated(source) /\ Translated(emitted') = Translated(emitted)
    BY <1>12 DEF PumpCloseActivities, PumpCloseEnd
  <2>2. UNCHANGED <<phase, wpc, wres, derived, held, source, sourceClosed, delivered>>
    BY <1>12 DEF PumpCloseActivities, PumpCloseEnd, sandboxVars, waitVars
  <2>3. CASE PumpCloseActivities
    BY <2>1, <2>2, <2>3 DEF PumpCloseActivities, StreamInv
  <2>4. CASE PumpCloseEnd
    BY <2>1, <2>2, <2>4 DEF PumpCloseEnd, StreamInv
  <2> QED
    BY <1>12, <2>3, <2>4
<1>13. ASSUME NEW w \in Waiters, CtxEnds(w) \/ WaitCall(w) \/ WaitResult(w)
       PROVE  StreamInv'
  BY <1>2, <1>13 DEF CtxEnds, WaitCall, WaitResult, sandboxVars, TypeOK
<1>14. ASSUME NEW w \in Waiters, NEW r, wres' = [wres EXCEPT ![w] = r],
              wpc' = [wpc EXCEPT ![w] = "returned"], derived' = derived,
              r \in Reasons => activitiesEnd,
              pumpVars' = pumpVars, phase' = phase
       PROVE  StreamInv'
  <2>1. /\ source' = source /\ sourceClosed' = sourceClosed /\ held' = held
        /\ activitiesClosed' = activitiesClosed /\ activitiesEnd' = activitiesEnd
        /\ emitted' = emitted /\ delivered' = delivered
    BY <1>14 DEF pumpVars
  <2>2. Translated(source') = Translated(source) /\ Translated(emitted') = Translated(emitted)
    BY <2>1
  <2>3. \A v \in Waiters :
          /\ wpc'[v] = "classified" => activitiesEnd /\ derived'[v] \in Reasons
          /\ wres'[v] \in Reasons => activitiesEnd /\ wpc'[v] = "returned"
    BY <1>14 DEF StreamInv, TypeOK
  <2> QED
    BY <1>14, <2>1, <2>2, <2>3 DEF StreamInv
<1>15. ASSUME NEW w \in Waiters, WaitCtxError(w) \/ WaitFailed(w) PROVE StreamInv'
  <2>1. "ctxError" \notin Reasons /\ "waitFailed" \notin Reasons
    BY DEF Reasons
  <2> QED
    BY <1>14, <1>15, <2>1 DEF WaitCtxError, WaitFailed, WaitError, sandboxVars
<1>16. ASSUME NEW w \in Waiters, WaitClassify(w) \/ WaitReturn(w) PROVE StreamInv'
  <2>1. CASE WaitClassify(w)
    <3>1. DeriveReason(exitCode, signalState) \in Reasons
      BY ReasonFacts, AdapterAssumption DEF TypeOK
    <3>2. /\ activitiesEnd /\ wpc[w] = "draining" /\ wres' = wres /\ phase' = phase
          /\ wpc' = [wpc EXCEPT ![w] = "classified"]
          /\ derived' = [derived EXCEPT ![w] = DeriveReason(exitCode, signalState)]
          /\ source' = source /\ sourceClosed' = sourceClosed /\ held' = held
          /\ activitiesClosed' = activitiesClosed /\ activitiesEnd' = activitiesEnd
          /\ emitted' = emitted /\ delivered' = delivered
      BY <2>1 DEF WaitClassify, sandboxVars, pumpVars
    <3>3. Translated(source') = Translated(source) /\ Translated(emitted') = Translated(emitted)
      BY <3>2
    <3>4. \A v \in Waiters :
            /\ wpc'[v] = "classified" => activitiesEnd /\ derived'[v] \in Reasons
            /\ wres'[v] \in Reasons => activitiesEnd /\ wpc'[v] = "returned"
      BY <3>1, <3>2 DEF StreamInv, TypeOK
    <3> QED
      BY <3>2, <3>3, <3>4 DEF StreamInv
  <2>2. CASE WaitReturn(w)
    BY <1>14, <2>2 DEF WaitReturn, StreamInv, sandboxVars
  <2> QED
    BY <1>16, <2>1, <2>2
<1>17. ASSUME NEW s \in Signallers, Signal(s) PROVE StreamInv'
  BY <1>2, <1>17 DEF Signal, SignalCall, SandboxSignals, SandboxRefuses, RecordLoad,
                     RecordSwap, sandboxVars, waitVars
<1>18. CASE UNCHANGED vars
  BY <1>2, <1>18 DEF vars, sandboxVars, waitVars
<1> QED
  BY <1>4, <1>5, <1>6, <1>7, <1>8, <1>9, <1>10, <1>11, <1>12, <1>13, <1>15, <1>16,
     <1>17, <1>18 DEF Next, Sandbox, Pump, Wait, Done

(* StreamInv holds throughout, by StreamStep and the types. *)
LEMMA StreamInvariant == Spec => []StreamInv
<1>1. Init => StreamInv
  <2> SUFFICES ASSUME Init PROVE StreamInv
    OBVIOUS
  <2>1. source = <<>> /\ emitted = <<>> /\ delivered = <<>> /\ held = <<>>
    BY DEF Init
  <2>2. Translated(<<>>) = <<>>
    BY TranslatedEmpty
  <2>3. \A w \in Waiters : wres[w] \notin Reasons /\ wpc[w] = "idle"
    BY DEF Init, Reasons
  <2>4. <<>> \o <<>> \o <<>> = <<>>
    BY ConcatEmptySeq, EmptySeq
  <2>5. ~activitiesClosed /\ ~activitiesEnd
    BY DEF Init
  <2> QED
    BY <2>1, <2>2, <2>3, <2>4, <2>5 DEF StreamInv
<1> QED
  BY <1>1, StreamStep, TypeCorrect, PTL DEF Spec

(* Wait that returns a terminal result returns after the activity channel is
   closed and every activity has been received, in order: the promise that
   Wait's receive from activitiesEnd (process_adapter.go:323) is there to keep. *)
THEOREM StreamCorrect == Spec => []WaitSeesWholeStream
<1>1. TypeOK /\ StreamInv => WaitSeesWholeStream
  <2> SUFFICES ASSUME TypeOK, StreamInv, \E w \in Waiters : wres[w] \in Reasons
               PROVE  activitiesClosed /\ delivered = Translated(emitted)
    BY DEF WaitSeesWholeStream
  <2>1. activitiesClosed /\ source = <<>> /\ held = <<>>
    BY DEF StreamInv
  <2>2. Translated(<<>>) = <<>>
    BY TranslatedEmpty
  <2>3. delivered \o <<>> = delivered
    BY ConcatEmptySeq DEF TypeOK
  <2> QED
    BY <2>1, <2>2, <2>3 DEF StreamInv
<1> QED
  BY <1>1, StreamInvariant, TypeCorrect, PTL

-----------------------------------------------------------------------------
(* What a death is blamed on *)

\* The conjuncts of BlameInv about the Signal calls ...
CallsInv ==
  /\ \A s \in Signallers :
       /\ spc[s] \in {"sandbox", "load", "cas", "ok"} => skind[s] \in SignalKinds
       /\ spc[s] = "cas" => scur[s] < Severity[skind[s]]
       /\ spc[s] = "ok" => Severity[skind[s]] <= signalState
  /\ signalState > 0 =>
       \E s \in Signallers : spc[s] = "ok" /\ Severity[skind[s]] = signalState

\* ... and those about the Wait calls.
ResultsInv ==
  /\ life = "exited" /\ exitCode = -1 => cause # "self"
  /\ \A w \in Waiters :
       /\ wpc[w] \in {"draining", "classified"} => life = "exited"
       /\ wpc[w] \in {"idle", "sandbox", "draining"} => derived[w] = "none"
       /\ wres[w] \in Reasons => wres[w] = derived[w]
       /\ Blamed(derived[w]) <= signalState
       /\ Blamed(derived[w]) > 0 =>
            /\ life = "exited" /\ exitCode = -1
            /\ \E s \in Signallers :
                 spc[s] = "ok" /\ Severity[skind[s]] = Blamed(derived[w])
  /\ \A v \in Waiters : \A u \in earlier[v] :
       /\ wpc[u] = "returned"
       /\ derived[v] # "none" => Blamed(wres[u]) <= Blamed(derived[v])

\* What a step does to the Signal calls, as far as the Wait calls care: the
\* recorded severity never falls and a call that succeeded stays as it is.
SignalsAdvance ==
  /\ signalState <= signalState'
  /\ \A s \in Signallers : spc[s] = "ok" => spc'[s] = "ok" /\ skind'[s] = skind[s]

(* A step keeps CallsInv, never lowers signalState and never undoes a Signal
   call that returned: the part of recordSignal that callers rely on. *)
LEMMA CallsStep ==
  TypeOK /\ CallsInv /\ [Next]_vars => CallsInv' /\ SignalsAdvance
<1> SUFFICES ASSUME TypeOK, CallsInv, [Next]_vars PROVE CallsInv' /\ SignalsAdvance
  OBVIOUS
<1> USE SeverityFacts
<1>1. ASSUME UNCHANGED signalVars PROVE CallsInv' /\ SignalsAdvance
  BY <1>1 DEF signalVars, CallsInv, SignalsAdvance, TypeOK
<1>2. ASSUME NEW s \in Signallers, NEW pc, pc # "ok", spc[s] \notin {"ok"},
             spc' = [spc EXCEPT ![s] = pc], UNCHANGED <<signalState, scur>>,
             \/ skind' = skind
             \/ \E k \in AnyKind : skind' = [skind EXCEPT ![s] = k],
             pc \in {"sandbox", "load", "cas"} => skind'[s] \in SignalKinds,
             pc = "cas" => scur[s] < Severity[skind[s]] /\ skind' = skind
      PROVE  CallsInv' /\ SignalsAdvance
  BY <1>2 DEF CallsInv, SignalsAdvance, TypeOK
<1>3. ASSUME NEW s \in Signallers, NEW k \in AnyKind, SignalCall(s, k)
      PROVE  CallsInv' /\ SignalsAdvance
  BY <1>2, <1>3 DEF SignalCall, SignalGoto, TypeOK
<1>4. ASSUME NEW s \in Signallers, SandboxSignals(s) \/ SandboxRefuses(s)
      PROVE  CallsInv' /\ SignalsAdvance
  <2>1. skind[s] \in SignalKinds /\ spc[s] # "ok" /\ skind' = skind
        /\ UNCHANGED <<signalState, scur>>
    BY <1>4 DEF SandboxSignals, SandboxRefuses, CallsInv
  <2> QED
    BY <1>2, <1>4, <2>1 DEF SandboxSignals, SandboxRefuses, SignalGoto
<1>5. ASSUME NEW s \in Signallers, RecordLoad(s)
      PROVE  CallsInv' /\ SignalsAdvance
  <2>1. /\ spc[s] = "load" /\ skind' = skind /\ signalState' = signalState
        /\ scur' = [scur EXCEPT ![s] = signalState]
        /\ skind[s] \in SignalKinds /\ Severity[skind[s]] \in 1..3
        /\ signalState \in 0..3
    BY <1>5 DEF RecordLoad, CallsInv, TypeOK
  <2>2. CASE Severity[skind[s]] <= signalState
    <3>1. spc' = [spc EXCEPT ![s] = "ok"]
      BY <1>5, <2>2 DEF RecordLoad, SignalGoto
    <3> QED
      BY <2>1, <2>2, <3>1 DEF CallsInv, SignalsAdvance, TypeOK
  <2>3. CASE ~(Severity[skind[s]] <= signalState)
    <3>1. spc' = [spc EXCEPT ![s] = "cas"]
      BY <1>5, <2>3 DEF RecordLoad, SignalGoto
    <3> QED
      BY <2>1, <2>3, <3>1 DEF CallsInv, SignalsAdvance, TypeOK
  <2> QED
    BY <2>2, <2>3
<1>6. ASSUME NEW s \in Signallers, RecordSwap(s)
      PROVE  CallsInv' /\ SignalsAdvance
  <2>1. /\ spc[s] = "cas" /\ skind' = skind /\ scur' = scur
        /\ skind[s] \in SignalKinds /\ Severity[skind[s]] \in 1..3
        /\ scur[s] < Severity[skind[s]] /\ scur[s] \in 0..3 /\ signalState \in 0..3
    BY <1>6 DEF RecordSwap, CallsInv, TypeOK
  <2>2. CASE signalState = scur[s]
    <3>1. spc' = [spc EXCEPT ![s] = "ok"] /\ signalState' = Severity[skind[s]]
      BY <1>6, <2>2 DEF RecordSwap, SignalGoto
    <3>2. signalState < signalState'
      BY <2>1, <2>2, <3>1
    <3>3. spc'[s] = "ok" /\ Severity[skind'[s]] = signalState'
      BY <2>1, <3>1 DEF TypeOK
    <3>4. \A t \in Signallers \ {s} : spc'[t] = spc[t]
      BY <3>1 DEF TypeOK
    <3>5. \A t \in Signallers : spc'[t] = "ok" => Severity[skind'[t]] <= signalState'
      <4> SUFFICES ASSUME NEW t \in Signallers, spc'[t] = "ok", t # s
                   PROVE  Severity[skind'[t]] <= signalState'
        BY <2>1, <3>1, <3>3
      <4>1. Severity[skind[t]] <= signalState /\ Severity[skind[t]] \in 0..3
        BY <3>4 DEF CallsInv, TypeOK
      <4> QED
        BY <2>1, <3>1, <3>2, <4>1
    <3>6. \A t \in Signallers :
            /\ spc'[t] \in {"sandbox", "load", "cas", "ok"} => skind'[t] \in SignalKinds
            /\ spc'[t] = "cas" => scur'[t] < Severity[skind'[t]]
      BY <2>1, <3>3, <3>4 DEF CallsInv
    <3>7. CallsInv'
      BY <3>3, <3>5, <3>6 DEF CallsInv
    <3> QED
      BY <2>1, <3>1, <3>2, <3>4, <3>7 DEF SignalsAdvance
  <2>3. CASE signalState # scur[s]
    <3>1. spc' = [spc EXCEPT ![s] = "load"] /\ signalState' = signalState
      BY <1>6, <2>3 DEF RecordSwap, SignalGoto
    <3> QED
      BY <1>2, <2>1, <3>1
  <2> QED
    BY <2>2, <2>3
<1>7. ASSUME NEW w \in Waiters, Wait(w) \/ CtxEnds(w) PROVE UNCHANGED signalVars
  BY <1>7 DEF Wait, CtxEnds, WaitCall, WaitCtxError, WaitFailed, WaitError, WaitResult,
              WaitClassify, WaitReturn
<1>8. CASE Start \/ Release \/ Sandbox \/ Pump \/ Deliver \/ Done
  <2>1. UNCHANGED signalVars
    BY <1>8 DEF Start, Release, Sandbox, SelfExit, SignalDeath, ForeignDeath, SandboxFails,
                Emit, CloseSource, Pump, PumpReceive, PumpCloseActivities, PumpCloseEnd,
                Deliver, Done, vars
  <2> QED
    BY <1>1, <2>1
<1>9. CASE UNCHANGED vars
  BY <1>1, <1>9 DEF vars
<1> QED
  BY <1>1, <1>3, <1>4, <1>5, <1>6, <1>7, <1>8, <1>9 DEF Next, Signal

(* A step that keeps CallsInv keeps what Wait calls have answered justified. *)
LEMMA ResultsStep ==
  TypeOK /\ CallsInv /\ ResultsInv /\ [Next]_vars => ResultsInv'
<1> SUFFICES ASSUME TypeOK, CallsInv, ResultsInv, [Next]_vars PROVE ResultsInv'
  OBVIOUS
<1>1. SignalsAdvance
  BY CallsStep
<1>2. signalState \in 0..3 /\ signalState' \in 0..3
  <2>1. TypeOK'
    BY TypeStep
  <2> QED
    BY <2>1 DEF TypeOK
<1> DEFINE Earned(sev) ==
              \E s \in Signallers : spc[s] = "ok" /\ Severity[skind[s]] = sev
           StillEarned(sev) ==
              \E s \in Signallers : spc'[s] = "ok" /\ Severity[skind'[s]] = sev
<1>3. ASSUME NEW sev, Earned(sev) PROVE StillEarned(sev)
  BY <1>1, <1>3 DEF SignalsAdvance
<1>4. \A w \in Waiters : Blamed(derived[w]) \in 0..3 /\ Blamed(wres[w]) \in 0..3
  <2> SUFFICES ASSUME NEW w \in Waiters
               PROVE  Blamed(derived[w]) \in 0..3 /\ Blamed(wres[w]) \in 0..3
    OBVIOUS
  <2>1. derived[w] \in WaitResults /\ wres[w] \in WaitResults
    BY DEF TypeOK, WaitResults
  <2> QED
    BY <2>1, BlamedFacts
<1>5. ASSUME NEW w \in Waiters, derived'[w] = derived[w],
             life = "exited" => UNCHANGED <<life, exitCode>>
      PROVE  /\ Blamed(derived'[w]) <= signalState'
             /\ Blamed(derived'[w]) > 0 =>
                  life' = "exited" /\ exitCode' = -1 /\ StillEarned(Blamed(derived'[w]))
  <2>1. Blamed(derived[w]) <= signalState /\ signalState <= signalState'
    BY <1>1 DEF ResultsInv, SignalsAdvance
  <2>2. Blamed(derived'[w]) <= signalState'
    BY <1>2, <1>4, <1>5, <2>1
  <2>3. ASSUME Blamed(derived[w]) > 0
        PROVE  life' = "exited" /\ exitCode' = -1 /\ StillEarned(Blamed(derived[w]))
    <3>1. life = "exited" /\ exitCode = -1 /\ Earned(Blamed(derived[w]))
      BY <2>3 DEF ResultsInv
    <3> QED
      BY <1>3, <1>5, <3>1
  <2> QED
    BY <1>5, <2>2, <2>3
<1>6. ASSUME UNCHANGED <<wpc, wres, derived, earlier>>,
             life = "exited" => UNCHANGED <<life, exitCode, cause>>,
             life' = "exited" /\ exitCode' = -1 => cause' # "self"
      PROVE  ResultsInv'
  <2>1. \A w \in Waiters :
          /\ wpc'[w] \in {"draining", "classified"} => life' = "exited"
          /\ wpc'[w] \in {"idle", "sandbox", "draining"} => derived'[w] = "none"
          /\ wres'[w] \in Reasons => wres'[w] = derived'[w]
    BY <1>6 DEF ResultsInv
  <2>2. \A v \in Waiters : \A u \in earlier'[v] :
          /\ wpc'[u] = "returned"
          /\ derived'[v] # "none" => Blamed(wres'[u]) <= Blamed(derived'[v])
    BY <1>6 DEF ResultsInv
  <2>3. \A w \in Waiters :
          /\ Blamed(derived'[w]) <= signalState'
          /\ Blamed(derived'[w]) > 0 =>
               life' = "exited" /\ exitCode' = -1 /\ StillEarned(Blamed(derived'[w]))
    BY <1>5, <1>6
  <2> QED
    BY <1>6, <2>1, <2>2, <2>3 DEF ResultsInv
<1>7. ASSUME UNCHANGED <<life, exitCode, cause, wpc, wres, derived, earlier>>
      PROVE  ResultsInv'
  BY <1>6, <1>7 DEF ResultsInv
<1>8. CASE Start \/ Release \/ Pump \/ Deliver \/ CloseSource
  BY <1>7, <1>8 DEF Start, Release, Pump, PumpReceive, PumpCloseActivities, PumpCloseEnd,
                    Deliver, CloseSource, sandboxVars, waitVars
<1>9. ASSUME NEW k \in SourceKinds, Emit(k) PROVE ResultsInv'
  BY <1>7, <1>9 DEF Emit, sandboxVars, waitVars
<1>10. ASSUME NEW code \in ExitCodes, SelfExit(code) PROVE ResultsInv'
  BY <1>6, <1>10, AdapterAssumption DEF SelfExit, Running, waitVars
<1>11. CASE SignalDeath \/ ForeignDeath \/ SandboxFails
  BY <1>6, <1>11 DEF SignalDeath, ForeignDeath, SandboxFails, Running, waitVars
<1>12. ASSUME NEW w \in Waiters, UNCHANGED <<life, exitCode, cause, derived, earlier>>,
              wpc[w] # "returned", wpc'[w] # "idle",
              \A v \in Waiters \ {w} : wpc'[v] = wpc[v] /\ wres'[v] = wres[v],
              wpc'[w] \in {"draining", "classified"} => life = "exited",
              wpc'[w] \in {"sandbox", "draining"} => derived[w] = "none",
              wres'[w] \in Reasons => wres'[w] = derived[w]
       PROVE  ResultsInv'
  <2>1. \A v \in Waiters :
          /\ wpc'[v] \in {"draining", "classified"} => life' = "exited"
          /\ wpc'[v] \in {"idle", "sandbox", "draining"} => derived'[v] = "none"
          /\ wres'[v] \in Reasons => wres'[v] = derived'[v]
    BY <1>12 DEF ResultsInv
  <2>2. ASSUME NEW v \in Waiters, NEW u \in earlier'[v]
        PROVE  /\ wpc'[u] = "returned"
               /\ derived'[v] # "none" => Blamed(wres'[u]) <= Blamed(derived'[v])
    <3>1. u \in earlier[v] /\ u \in Waiters /\ wpc[u] = "returned"
      BY <1>12, <2>2 DEF ResultsInv, TypeOK
    <3>2. wpc'[u] = wpc[u] /\ wres'[u] = wres[u]
      BY <1>12, <3>1
    <3> QED
      BY <1>12, <3>1, <3>2 DEF ResultsInv
  <2>3. \A v \in Waiters :
          /\ Blamed(derived'[v]) <= signalState'
          /\ Blamed(derived'[v]) > 0 =>
               life' = "exited" /\ exitCode' = -1 /\ StillEarned(Blamed(derived'[v]))
    BY <1>5, <1>12
  <2>4. life' = "exited" /\ exitCode' = -1 => cause' # "self"
    BY <1>12 DEF ResultsInv
  <2> QED
    BY <2>1, <2>2, <2>3, <2>4 DEF ResultsInv
<1>13. ASSUME NEW w \in Waiters, CtxEnds(w) PROVE ResultsInv'
  BY <1>7, <1>13 DEF CtxEnds, sandboxVars
<1>14. ASSUME NEW w \in Waiters, WaitCall(w) PROVE ResultsInv'
  <2>1. /\ wpc[w] = "idle" /\ wpc' = [wpc EXCEPT ![w] = "sandbox"]
        /\ earlier' = [earlier EXCEPT ![w] = {v \in Waiters : wpc[v] = "returned"}]
        /\ UNCHANGED <<life, exitCode, cause, wres, derived>>
    BY <1>14 DEF WaitCall, sandboxVars
  <2>2. \A v \in Waiters :
          /\ wpc'[v] \in {"draining", "classified"} => life' = "exited"
          /\ wpc'[v] \in {"idle", "sandbox", "draining"} => derived'[v] = "none"
          /\ wres'[v] \in Reasons => wres'[v] = derived'[v]
    BY <2>1 DEF ResultsInv, TypeOK
  <2>3. ASSUME NEW v \in Waiters, NEW u \in earlier'[v]
        PROVE  /\ wpc'[u] = "returned"
               /\ derived'[v] # "none" => Blamed(wres'[u]) <= Blamed(derived'[v])
    <3>1. CASE v = w
      <4>1. u \in Waiters /\ wpc[u] = "returned" /\ derived[v] = "none"
        BY <2>1, <2>3, <3>1 DEF ResultsInv, TypeOK
      <4> QED
        BY <2>1, <4>1 DEF TypeOK
    <3>2. CASE v # w
      <4>1. u \in earlier[v] /\ u \in Waiters
        BY <2>1, <2>3, <3>2 DEF TypeOK
      <4> QED
        BY <2>1, <4>1 DEF ResultsInv, TypeOK
    <3> QED
      BY <3>1, <3>2
  <2>4. \A v \in Waiters :
          /\ Blamed(derived'[v]) <= signalState'
          /\ Blamed(derived'[v]) > 0 =>
               life' = "exited" /\ exitCode' = -1 /\ StillEarned(Blamed(derived'[v]))
    BY <1>5, <2>1
  <2>5. life' = "exited" /\ exitCode' = -1 => cause' # "self"
    BY <2>1 DEF ResultsInv
  <2> QED
    BY <2>2, <2>3, <2>4, <2>5 DEF ResultsInv
<1>15. ASSUME NEW w \in Waiters, WaitCtxError(w) \/ WaitFailed(w) PROVE ResultsInv'
  <2>1. PICK r \in {"ctxError", "waitFailed"} : wres' = [wres EXCEPT ![w] = r]
    BY <1>15 DEF WaitCtxError, WaitFailed, WaitError
  <2>2. r \notin Reasons
    BY <2>1 DEF Reasons
  <2>3. /\ wpc[w] = "sandbox" /\ wpc' = [wpc EXCEPT ![w] = "returned"]
        /\ UNCHANGED <<life, exitCode, cause, derived, earlier>>
    BY <1>15 DEF WaitCtxError, WaitFailed, WaitError, sandboxVars
  <2> QED
    BY <1>12, <2>1, <2>2, <2>3 DEF TypeOK
<1>16. ASSUME NEW w \in Waiters, WaitResult(w) PROVE ResultsInv'
  <2>1. /\ wpc[w] = "sandbox" /\ wpc' = [wpc EXCEPT ![w] = "draining"] /\ life = "exited"
        /\ UNCHANGED <<life, exitCode, cause, wres, derived, earlier>>
    BY <1>16 DEF WaitResult, sandboxVars
  <2>2. derived[w] = "none" /\ (wres[w] \in Reasons => wres[w] = derived[w])
    BY <2>1 DEF ResultsInv
  <2> QED
    BY <1>12, <2>1, <2>2 DEF TypeOK
<1>17. ASSUME NEW w \in Waiters, WaitReturn(w) PROVE ResultsInv'
  <2>1. /\ wpc[w] = "classified" /\ wpc' = [wpc EXCEPT ![w] = "returned"]
        /\ wres' = [wres EXCEPT ![w] = derived[w]]
        /\ UNCHANGED <<life, exitCode, cause, derived, earlier>>
    BY <1>17 DEF WaitReturn, sandboxVars
  <2> QED
    BY <1>12, <2>1 DEF TypeOK
<1>18. ASSUME NEW w \in Waiters, WaitClassify(w) PROVE ResultsInv'
  <2> DEFINE reason == DeriveReason(exitCode, signalState)
  <2>1. /\ wpc[w] = "draining" /\ wpc' = [wpc EXCEPT ![w] = "classified"]
        /\ derived' = [derived EXCEPT ![w] = reason]
        /\ UNCHANGED <<life, exitCode, cause, signalState, spc, skind, wres, earlier>>
    BY <1>18 DEF WaitClassify, sandboxVars, signalVars
  <2>2. reason \in Reasons /\ Blamed(reason) = IF exitCode = -1 THEN signalState ELSE 0
    BY <1>2, ReasonFacts, AdapterAssumption DEF TypeOK
  <2> HIDE DEF reason
  <2>3. life = "exited" /\ derived[w] = "none"
    BY <2>1 DEF ResultsInv
  <2>4. /\ Blamed(reason) <= signalState
        /\ Blamed(reason) > 0 => exitCode = -1 /\ Earned(Blamed(reason))
    BY <1>2, <2>2 DEF CallsInv
  <2>5. wres[w] \notin Reasons
    <3>1. "none" \notin Reasons
      BY DEF Reasons
    <3> QED
      BY <2>3, <3>1 DEF ResultsInv
  <2>6. derived'[w] = reason /\ \A v \in Waiters \ {w} : derived'[v] = derived[v]
    BY <2>1 DEF TypeOK
  <2>7. wpc'[w] = "classified" /\ \A v \in Waiters \ {w} : wpc'[v] = wpc[v]
    BY <2>1 DEF TypeOK
  <2>8. \A v \in Waiters :
          /\ wpc'[v] \in {"draining", "classified"} => life' = "exited"
          /\ wpc'[v] \in {"idle", "sandbox", "draining"} => derived'[v] = "none"
          /\ wres'[v] \in Reasons => wres'[v] = derived'[v]
    BY <2>1, <2>3, <2>5, <2>6, <2>7 DEF ResultsInv
  <2>9. ASSUME NEW v \in Waiters
        PROVE  /\ Blamed(derived'[v]) <= signalState'
               /\ Blamed(derived'[v]) > 0 =>
                    life' = "exited" /\ exitCode' = -1 /\ StillEarned(Blamed(derived'[v]))
    <3>1. CASE v = w
      BY <1>3, <2>1, <2>3, <2>4, <2>6, <3>1
    <3>2. CASE v # w
      BY <1>5, <2>1, <2>6, <3>2
    <3> QED
      BY <3>1, <3>2
  <2>10. ASSUME NEW u \in Waiters PROVE Blamed(wres[u]) <= Blamed(reason)
    <3>1. wres[u] \in WaitResults
      BY DEF TypeOK
    <3>2. CASE Blamed(wres[u]) > 0
      <4>1. wres[u] = derived[u]
        BY <3>1, <3>2, BlamedFacts DEF ResultsInv
      <4>2. Blamed(derived[u]) <= signalState /\ exitCode = -1
        BY <3>2, <4>1 DEF ResultsInv
      <4> QED
        BY <2>2, <4>1, <4>2
    <3>3. CASE ~(Blamed(wres[u]) > 0)
      <4>1. Blamed(wres[u]) = 0
        BY <1>4, <3>3
      <4> QED
        BY <1>2, <2>2, <4>1
    <3> QED
      BY <3>2, <3>3
  <2>11. ASSUME NEW v \in Waiters, NEW u \in earlier'[v]
         PROVE  /\ wpc'[u] = "returned"
                /\ derived'[v] # "none" => Blamed(wres'[u]) <= Blamed(derived'[v])
    <3>1. u \in earlier[v] /\ u \in Waiters /\ wpc[u] = "returned"
      BY <2>1, <2>11 DEF ResultsInv, TypeOK
    <3>2. wpc'[u] = "returned" /\ wres'[u] = wres[u]
      BY <2>1, <2>7, <3>1
    <3>3. CASE v = w
      BY <2>6, <2>10, <3>1, <3>2, <3>3
    <3>4. CASE v # w
      BY <2>6, <3>1, <3>2, <3>4 DEF ResultsInv
    <3> QED
      BY <3>2, <3>3, <3>4
  <2>12. life' = "exited" /\ exitCode' = -1 => cause' # "self"
    BY <2>1 DEF ResultsInv
  <2> QED
    BY <2>8, <2>9, <2>11, <2>12 DEF ResultsInv
<1>19. ASSUME NEW s \in Signallers, Signal(s) PROVE ResultsInv'
  BY <1>7, <1>19 DEF Signal, SignalCall, SandboxSignals, SandboxRefuses, RecordLoad,
                     RecordSwap, sandboxVars, waitVars
<1>20. CASE UNCHANGED vars
  BY <1>7, <1>20 DEF vars, sandboxVars, waitVars
<1> QED
  BY <1>8, <1>9, <1>10, <1>11, <1>13, <1>14, <1>15, <1>16, <1>17, <1>18, <1>19, <1>20
     DEF Next, Sandbox, Pump, Wait, Done

(* BlameInv is about Signal calls and about results, one part each. *)
LEMMA BlameInvSplit == BlameInv <=> CallsInv /\ ResultsInv
BY DEF BlameInv, CallsInv, ResultsInv

(* BlameInv holds throughout. *)
LEMMA BlameInvariant == Spec => []BlameInv
<1>1. Init => CallsInv /\ ResultsInv
  <2> SUFFICES ASSUME Init PROVE CallsInv /\ ResultsInv
    OBVIOUS
  <2>1. signalState = 0 /\ life = "running"
    BY DEF Init
  <2>2. \A s \in Signallers : spc[s] = "idle"
    BY DEF Init
  <2>3. \A w \in Waiters :
          wpc[w] = "idle" /\ derived[w] = "none" /\ wres[w] = "none" /\ earlier[w] = {}
    BY DEF Init
  <2>4. Blamed("none") = 0 /\ "none" \notin Reasons
    BY DEF Blamed, Reasons
  <2>5. CallsInv
    BY <2>1, <2>2 DEF CallsInv
  <2>6. ResultsInv
    BY <2>1, <2>3, <2>4 DEF ResultsInv
  <2> QED
    BY <2>5, <2>6
<1>2. TypeOK /\ (CallsInv /\ ResultsInv) /\ [Next]_vars => (CallsInv /\ ResultsInv)'
  BY CallsStep, ResultsStep
<1> QED
  BY <1>1, <1>2, BlameInvSplit, TypeCorrect, PTL DEF Spec

(* deriveReason blames a death only on a signal the sandbox accepted. *)
THEOREM BlameCorrect == Spec => []BlameIsEarned
<1>1. TypeOK /\ BlameInv => BlameIsEarned
  <2> SUFFICES ASSUME TypeOK, BlameInv, NEW w \in Waiters, Blamed(wres[w]) > 0
               PROVE  /\ exitCode = -1 /\ cause # "self"
                      /\ \E s \in Signallers :
                           spc[s] = "ok" /\ Severity[skind[s]] = Blamed(wres[w])
    BY DEF BlameIsEarned
  <2>1. wres[w] \in WaitResults
    BY DEF TypeOK
  <2>2. wres[w] = derived[w]
    BY <2>1, BlamedFacts DEF BlameInv
  <2> QED
    BY <2>2 DEF BlameInv
<1> QED
  BY <1>1, TypeCorrect, BlameInvariant, PTL

(* A Wait call made after another had returned never blames a milder signal
   than it, however Signal calls race and however many calls overlap
   (recordSignal, deriveReason). *)
THEOREM NeverSofter == Spec => []ReasonsNeverSoften
<1>1. BlameInv => ReasonsNeverSoften
  <2> SUFFICES ASSUME BlameInv, NEW u \in Waiters, NEW v \in Waiters,
                      u \in earlier[v], wres[v] \in Reasons
               PROVE  Blamed(wres[u]) <= Blamed(wres[v])
    BY DEF ReasonsNeverSoften
  <2>1. wres[v] = derived[v] /\ derived[v] # "none"
    BY DEF BlameInv, Reasons
  <2> QED
    BY <2>1 DEF BlameInv
<1> QED
  BY <1>1, BlameInvariant, PTL

(* A Wait call that classifies a death by signal counts every Signal call that
   has returned, whichever way their compare-and-swaps raced (recordSignal). *)
THEOREM SignalsCounted == Spec => ReturnedSignalsCount
<1>1. TypeOK /\ BlameInv /\ [Next]_vars =>
        [\A w \in Waiters, s \in Signallers :
           (/\ wpc[w] = "draining" /\ wpc'[w] = "classified"
            /\ exitCode = -1 /\ spc[s] = "ok")
           => Severity[skind[s]] <= Blamed(derived'[w])]_vars
  <2> SUFFICES ASSUME TypeOK, BlameInv, [Next]_vars, NEW w \in Waiters,
                      NEW s \in Signallers, wpc[w] = "draining", wpc'[w] = "classified",
                      exitCode = -1, spc[s] = "ok"
               PROVE  Severity[skind[s]] <= Blamed(derived'[w])
    OBVIOUS
  <2>1. WaitClassify(w)
    <3>1. wpc'[w] # wpc[w]
      OBVIOUS
    <3>2. ASSUME UNCHANGED wpc PROVE FALSE
      BY <3>1, <3>2
    <3>3. ASSUME NEW v \in Waiters, CtxEnds(v) PROVE FALSE
      BY <3>2, <3>3 DEF CtxEnds
    <3>4. ASSUME NEW v \in Waiters, Wait(v) PROVE WaitClassify(w)
      <4>1. v = w
        BY <3>1, <3>4 DEF Wait, WaitCall, WaitCtxError, WaitFailed, WaitError, WaitResult,
                          WaitClassify, WaitReturn, TypeOK
      <4> QED
        BY <3>4, <4>1 DEF Wait, WaitCall, WaitCtxError, WaitFailed, WaitError, WaitResult,
                          WaitReturn, TypeOK
    <3>5. ASSUME NEW t \in Signallers, Signal(t) PROVE FALSE
      BY <3>2, <3>5 DEF Signal, SignalCall, SandboxSignals, SandboxRefuses, RecordLoad,
                        RecordSwap, waitVars
    <3>6. CASE Start \/ Release \/ Sandbox \/ Pump \/ Deliver \/ Done
      BY <3>2, <3>6 DEF Start, Release, Sandbox, SelfExit, SignalDeath, ForeignDeath,
                        SandboxFails, Emit, CloseSource, Pump, PumpReceive,
                        PumpCloseActivities, PumpCloseEnd, Deliver, Done, vars, waitVars
    <3>7. CASE UNCHANGED vars
      BY <3>2, <3>7 DEF vars, waitVars
    <3> QED
      BY <3>3, <3>4, <3>5, <3>6, <3>7 DEF Next
  <2>2. derived'[w] = DeriveReason(exitCode, signalState)
    BY <2>1 DEF WaitClassify, TypeOK
  <2>3. Blamed(derived'[w]) = signalState
    BY <2>2, ReasonFacts DEF TypeOK
  <2> QED
    BY <2>3 DEF BlameInv
<1> QED
  BY <1>1, TypeCorrect, BlameInvariant, PTL DEF Spec, ReturnedSignalsCount

-----------------------------------------------------------------------------
(* The adapter implements ActivityStream *)

Pending == held \o Translated(source)
Waited  == \E w \in Waiters : wres[w] \in Reasons

(* Every step of the adapter is a step of the abstract stream or leaves it alone. *)
LEMMA StreamStepMaps ==
  TypeOK /\ StreamInv /\ [Next]_vars => [Stream!StreamNext]_(Stream!streamVars)
<1> SUFFICES ASSUME TypeOK, StreamInv, [Next]_vars
             PROVE  [Stream!StreamNext]_(Stream!streamVars)
  OBVIOUS
<1> USE DEF Pending, Waited
<1>1. ASSUME Pending' = Pending, delivered' = delivered,
             activitiesClosed' = activitiesClosed, Waited' = Waited
      PROVE  UNCHANGED Stream!streamVars
  BY <1>1 DEF Stream!streamVars
<1>2. ASSUME pumpVars' = pumpVars, wres' = wres PROVE UNCHANGED Stream!streamVars
  <2>1. /\ held' = held /\ source' = source /\ delivered' = delivered
        /\ activitiesClosed' = activitiesClosed
    BY <1>2 DEF pumpVars
  <2>2. Pending' = Pending /\ Waited' = Waited
    BY <1>2, <2>1
  <2> QED
    BY <1>1, <2>1, <2>2
<1>3. CASE Start
  <2>1. Pending' = Pending /\ Waited' = Waited
    BY <1>3 DEF Start, waitVars
  <2> QED
    BY <1>1, <1>3, <2>1 DEF Start
<1>4. CASE Release
  BY <1>2, <1>4 DEF Release, waitVars
<1>5. ASSUME NEW code \in ExitCodes, SelfExit(code) PROVE UNCHANGED Stream!streamVars
  BY <1>2, <1>5 DEF SelfExit, waitVars
<1>6. CASE SignalDeath \/ ForeignDeath \/ SandboxFails
  BY <1>2, <1>6 DEF SignalDeath, ForeignDeath, SandboxFails, waitVars
<1>7. ASSUME NEW k \in SourceKinds, Emit(k) PROVE Stream!Report(TranslateActivity(k))
  <2> DEFINE out == TranslateActivity(k)
  <2>1. ~activitiesClosed
    BY <1>7 DEF Emit, StreamInv
  <2>2. Translated(source') = Append(Translated(source), out)
    BY <1>7, TranslatedAppend DEF Emit, TypeOK
  <2>3. held \in Seq(OutKinds) /\ Translated(source) \in Seq(OutKinds) /\ out \in OutKinds
    BY TranslatedSeq, TranslatedType DEF TypeOK
  <2>4. held \o Append(Translated(source), out) = Append(held \o Translated(source), out)
    BY <2>3, ConcatProperties, AppendProperties
  <2>5. UNCHANGED <<held, delivered, activitiesClosed, wres>>
    BY <1>7 DEF Emit, waitVars
  <2>6. Pending' = Append(Pending, out) /\ Waited' = Waited
    BY <2>2, <2>4, <2>5
  <2> QED
    BY <2>1, <2>5, <2>6 DEF Stream!Report
<1>8. CASE CloseSource
  <2>1. Pending' = Pending /\ Waited' = Waited
    BY <1>8 DEF CloseSource, waitVars
  <2> QED
    BY <1>1, <1>8, <2>1 DEF CloseSource
<1>9. CASE PumpReceive
  <2>1. /\ held = <<>> /\ source # <<>> /\ source' = Tail(source)
        /\ held' = <<TranslateActivity(Head(source))>>
        /\ UNCHANGED <<delivered, activitiesClosed, wres>>
    BY <1>9 DEF PumpReceive, waitVars
  <2>2. Translated(source) = held' \o Translated(Tail(source))
    BY <2>1, TranslatedHead DEF TypeOK
  <2>3. held \o Translated(source) = Translated(source)
    BY <2>1, TranslatedSeq, ConcatEmptySeq DEF TypeOK
  <2>4. Pending' = Pending /\ Waited' = Waited
    BY <2>1, <2>2, <2>3
  <2> QED
    BY <1>1, <2>1, <2>4
<1>10. CASE Deliver
  <2>1. /\ held # <<>> /\ delivered' = delivered \o held /\ held' = <<>>
        /\ UNCHANGED <<source, activitiesClosed, wres>>
    BY <1>10 DEF Deliver, waitVars
  <2>2. PICK k \in OutKinds : held = <<k>>
    <3>1. Len(held) = 1 /\ held[1] \in OutKinds /\ held \in Seq(OutKinds)
      <4>1. held \in Seq(OutKinds) /\ Len(held) <= 1
        BY DEF TypeOK
      <4>2. Len(held) \in Nat \ {0}
        BY <2>1, <4>1, EmptySeq
      <4>3. Len(held) = 1
        BY <4>1, <4>2
      <4> QED
        BY <4>1, <4>3, ElementOfSeq
    <3>2. held = <<held[1]>>
      BY <3>1
    <3> QED
      BY <3>1, <3>2
  <2>3. Translated(source) \in Seq(OutKinds)
    BY TranslatedSeq DEF TypeOK
  <2>4. \A t \in Seq(OutKinds) :
          /\ <<k>> \o t # <<>> /\ Head(<<k>> \o t) = k /\ Tail(<<k>> \o t) = t
          /\ <<>> \o t = t
    BY <2>2
  <2>5. /\ Pending # <<>> /\ Head(Pending) = k /\ Tail(Pending) = Translated(source)
        /\ Pending' = Translated(source)
    BY <2>1, <2>2, <2>3, <2>4
  <2>6. delivered' = Append(delivered, k)
    BY <2>1, <2>2 DEF TypeOK
  <2>7. ~activitiesClosed
    BY <2>1 DEF StreamInv
  <2>8. Waited' = Waited
    BY <2>1
  <2>9. Stream!Receive
    BY <2>1, <2>5, <2>6, <2>7, <2>8 DEF Stream!Receive
  <2> QED
    BY <2>9 DEF Stream!StreamNext
<1>11. CASE PumpCloseActivities
  <2>1. /\ held = <<>> /\ source = <<>> /\ activitiesClosed' = TRUE
        /\ UNCHANGED <<held, source, delivered, wres>>
    BY <1>11 DEF PumpCloseActivities, waitVars
  <2>2. Pending = <<>> /\ Pending' = <<>>
    BY <2>1, TranslatedEmpty
  <2>3. Waited' = Waited
    BY <2>1
  <2>4. Stream!CloseStream
    BY <2>1, <2>2, <2>3 DEF Stream!CloseStream
  <2> QED
    BY <2>4 DEF Stream!StreamNext
<1>12. CASE PumpCloseEnd
  <2>1. Pending' = Pending /\ Waited' = Waited
    BY <1>12 DEF PumpCloseEnd, waitVars
  <2> QED
    BY <1>1, <1>12, <2>1 DEF PumpCloseEnd
<1>13. ASSUME NEW w \in Waiters,
              CtxEnds(w) \/ WaitCall(w) \/ WaitResult(w) \/ WaitClassify(w)
       PROVE  UNCHANGED Stream!streamVars
  BY <1>2, <1>13 DEF CtxEnds, WaitCall, WaitResult, WaitClassify
<1>14. ASSUME NEW w \in Waiters, WaitCtxError(w) \/ WaitFailed(w)
       PROVE  [Stream!StreamNext]_(Stream!streamVars)
  <2>1. PICK r \in {"ctxError", "waitFailed"} : wres' = [wres EXCEPT ![w] = r]
    BY <1>14 DEF WaitCtxError, WaitFailed, WaitError
  <2>2. r \notin Reasons
    BY <2>1 DEF Reasons
  <2>3. /\ UNCHANGED <<held, source, delivered, activitiesClosed>>
        /\ wpc[w] = "sandbox"
    BY <1>14 DEF WaitCtxError, WaitFailed, WaitError, pumpVars
  <2>4. Pending' = Pending
    BY <2>3
  <2>5. wres[w] \notin Reasons
    BY <2>3 DEF StreamInv
  <2>6. Waited' = Waited
    BY <2>1, <2>2, <2>5 DEF TypeOK
  <2> QED
    BY <1>1, <2>3, <2>4, <2>6
<1>15. ASSUME NEW w \in Waiters, WaitReturn(w) PROVE Stream!WaitReturns
  <2>1. /\ wpc[w] = "classified" /\ wres' = [wres EXCEPT ![w] = derived[w]]
        /\ UNCHANGED <<held, source, delivered, activitiesClosed>>
    BY <1>15 DEF WaitReturn, pumpVars
  <2>2. activitiesEnd /\ derived[w] \in Reasons
    BY <2>1 DEF StreamInv
  <2>3. activitiesClosed
    BY <2>2 DEF StreamInv
  <2>4. Pending' = Pending
    BY <2>1
  <2>5. Waited' = TRUE
    <3>1. wres'[w] \in Reasons
      BY <2>1, <2>2 DEF TypeOK
    <3> QED
      BY <3>1
  <2> QED
    BY <2>1, <2>3, <2>4, <2>5 DEF Stream!WaitReturns
<1>16. ASSUME NEW s \in Signallers, Signal(s) PROVE UNCHANGED Stream!streamVars
  BY <1>2, <1>16 DEF Signal, SignalCall, SandboxSignals, SandboxRefuses, RecordLoad,
                     RecordSwap, waitVars
<1>17. CASE UNCHANGED vars
  BY <1>2, <1>17 DEF vars, waitVars
<1> QED
  BY <1>3, <1>4, <1>5, <1>6, <1>7, <1>8, <1>9, <1>10, <1>11, <1>12, <1>13, <1>14,
     <1>15, <1>16, <1>17, TranslatedType
     DEF Next, Sandbox, Pump, Wait, Done, Stream!StreamNext

(* The channel newProcessAdapter gives its consumer is the abstract stream of
   ActivityStream: first in first out, nothing lost, closed before Wait. *)
THEOREM AdapterImplementsStream == Spec => ImplementsStream
<1>1. Init => Stream!StreamInit
  <2> SUFFICES ASSUME Init PROVE Stream!StreamInit
    OBVIOUS
  <2>1. held \o Translated(source) = <<>>
    BY TranslatedEmpty DEF Init
  <2>2. (\E w \in Waiters : wres[w] \in Reasons) = FALSE
    BY DEF Init, Reasons
  <2> QED
    BY <2>1, <2>2 DEF Init, Stream!StreamInit
<1> QED
  BY <1>1, StreamStepMaps, TypeCorrect, StreamInvariant, PTL
     DEF Spec, ImplementsStream, Stream!StreamSpec
=============================================================================
