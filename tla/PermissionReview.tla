-------------------------- MODULE PermissionReview --------------------------
(***************************************************************************)
(* How a tool call gets its permission, and how a classifier may give it   *)
(* in a human's place (internal/app/permission_review*.go over access.go   *)
(* and the gates of toolsets.go).  The classifier looks at files; what it  *)
(* saw is verified to lie in the workspace before it reads, and to be      *)
(* unchanged before its approval counts, while the files keep changing,    *)
(* the human may answer first and the review's context may end.  Sessions  *)
(* follow one another and share the workspace's permission rules.          *)
(* Evaluator, review runner, classifier and human are external.            *)
(***************************************************************************)
EXTENDS Access, Workspace

CONSTANTS Targets,      \* the files a classifier may ask about
          Calls,        \* the tool calls: whose, and what they require
          MaxSessions,  \* bound: sessions of the workspace, one after another
          MaxChanges,   \* bound: changes to the workspace during a review
          None

ASSUME ReviewAssumption ==
  /\ Targets \subseteq {<<"d", "f">>, <<"g">>}
  /\ Calls \subseteq [role : Roles, kind : Kinds]
  /\ MaxSessions \in Nat /\ MaxChanges \in Nat
  /\ None \notin Targets /\ None \notin {"access", "rule", "human", "classifier"}

Policies == {"default", "strict"}

\* The risk a classifier reports, and of a high one whether it also reports
\* an authorization that is medium or more.
Verdicts == {"low", "medium", "high", "high and authorized", "critical"}

VARIABLES
  session,    \* the session: profile, interactive, and its registration
  sessions,   \* how many sessions there have been
  call,       \* the tool call: whose, and what it requires
  rules,      \* the kinds the workspace's permission file approves always
  gate,       \* "none", "open", "granted" or "refused"
  by,         \* what decided the call
  review,     \* where the call's review is
  fs,         \* the workspace
  asked,      \* the target that is verified and about to be read
  observed,   \* the recorded observations: target, token, and what was seen
  confirmed,  \* what there was to see when each observation was rechecked
  changes,    \* how often the workspace has changed since the review began
  ctxDone,    \* the context of the review has ended
  verdict     \* the classifier's assessment

tool == <<session, sessions, call, rules>>
evidence == <<asked, observed, confirmed>>
vars == <<tool, gate, by, review, fs, evidence, changes, ctxDone, verdict>>

TypeOK ==
  /\ session.profile \in ProfileNames /\ session.interactive \in BOOLEAN
  /\ sessions \in 0..MaxSessions
  /\ call \in Calls
  /\ rules \subseteq Kinds
  /\ gate \in {"none", "open", "granted", "refused"}
  /\ by \in {None, "access", "rule", "human", "classifier"}
  /\ review \in {"off", "gathering", "rechecking", "confirmed", "ineligible", "stale",
                 "cut off"}
  /\ fs \in FileSystems
  /\ asked \in Targets \cup {None}
  /\ Len(observed) <= Cardinality(Targets) /\ Len(confirmed) <= Len(observed)
  /\ changes \in 0..MaxChanges /\ ctxDone \in BOOLEAN
  /\ verdict \in Verdicts \cup {None}

-----------------------------------------------------------------------------
(* newPermissionReviewRegistration *)

Disabled == [enabled |-> FALSE]

Enabled(profile, policy) ==
  [enabled |-> TRUE, policy |-> policy, containment |-> profile, observation |-> profile,
   ceiling |-> profile]

(* Seeded fault of Registration: any profile may have its calls reviewed. *)
RegistrationAnyProfile(profile, program, file) ==
  LET policy == IF program # None THEN program ELSE file IN
  IF policy = None THEN Disabled ELSE Enabled(profile, policy)

(* What the program selects goes before the models file; and only a trusted
   session is reviewed.  Both verifiers and the session have one ceiling. *)
Registration(profile, program, file) ==
  LET policy == IF program # None THEN program ELSE file IN
  IF policy = None \/ profile # "trusted" THEN Disabled ELSE Enabled(profile, policy)

(* gate.DefaultPermissionReviewPolicy and the strict policy. *)
Eligible(policy, reported) ==
  reported \in IF policy = "strict" THEN {"low"} ELSE {"low", "medium", "high and authorized"}

-----------------------------------------------------------------------------
(* permissionReviewEvidenceContainment *)

CanonicalRoot(workspace) == EvalSymlinks(workspace, RootLink).path

(* Seeded fault of CanonicalizeWithinRoot: only the last name may be missing. *)
CanonicalizeParent(workspace, path) ==
  LET found == EvalSymlinks(workspace, path)
      parent == EvalSymlinks(workspace, Front(path)) IN
  IF found = Error("absent") /\ parent.is = "path"
  THEN [parent EXCEPT !.path = Append(@, Last(path))] ELSE found

(* canonicalizeWithinRoot: the longest part of the path that exists, without
   its links, and the rest as it is. *)
CanonicalizeWithinRoot(workspace, path) ==
  LET root == Len(CanonicalRoot(workspace))
      missing(n) == EvalSymlinks(workspace, SubSeq(path, 1, n)) = Error("absent")
      n == Max({i \in root..Len(path) : ~missing(i)})
      found == EvalSymlinks(workspace, SubSeq(path, 1, n)) IN
  IF found.is = "path"
  THEN [found EXCEPT !.path = @ \o SubSeq(path, n + 1, Len(path))] ELSE found

(* Seeded fault of Contained: a path below the root is within it. *)
ContainedLexically(workspace, match) ==
  IsPrefix(CanonicalRoot(workspace), CanonicalRoot(workspace) \o match)

(* Seeded fault of Contained: what does not exist is refused. *)
ContainedExisting(workspace, match) ==
  LET found == EvalSymlinks(workspace, CanonicalRoot(workspace) \o match) IN
  found.is = "path" /\ IsPrefix(CanonicalRoot(workspace), found.path)

(* verifyRequirementContainment, of a path that is relative and has no "..". *)
Contained(workspace, match) ==
  LET found == CanonicalizeWithinRoot(workspace, CanonicalRoot(workspace) \o match) IN
  found.is = "path" /\ IsPrefix(CanonicalRoot(workspace), found.path)

-----------------------------------------------------------------------------
(* permissionReviewEvidenceObservation *)

(* Seeded fault of Fingerprint: what a link leads to is left out. *)
FingerprintLinkOnly(workspace, path) == Lstat(workspace, path)

(* filesystemObservationFingerprint; the digest of different fields differs. *)
Fingerprint(workspace, path) ==
  LET entry == Lstat(workspace, path) IN
  IF entry.is # "link" THEN entry
  ELSE [is |-> "link", to |-> entry.to, resolved |-> Stat(workspace, path)]

(* Seeded fault of Unchanged: the target's links are resolved first. *)
UnchangedResolved(workspace, observation) ==
  LET target == EvalSymlinks(workspace, observation.target) IN
  /\ target.is = "path" /\ IsPrefix(CanonicalRoot(workspace), target.path)
  /\ Fingerprint(workspace, target.path) = observation.token

(* verifyObservationRequirement *)
Unchanged(workspace, observation) ==
  /\ IsPrefix(CanonicalRoot(workspace), observation.target)
  /\ LET token == Fingerprint(workspace, observation.target) IN
       token.is # "error" /\ token = observation.token

-----------------------------------------------------------------------------
(* The gate of the call's role: a rule lifts what is gated, a human or a
   classifier may where there is an interactive session to ask. *)
Authorize(setup, required, approved) ==
  LET access == AccessFor(required.role, setup.profile, required.kind) IN
  /\ gate' = IF access = "allow" \/ (access = "gated" /\ required.kind \in approved)
             THEN "granted"
             ELSE IF access = "gated" /\ setup.interactive THEN "open" ELSE "refused"
  /\ by' = IF gate' = "open" THEN None
           ELSE IF access = "gated" /\ gate' = "granted" THEN "rule" ELSE "access"

(* buildPermissionStore: a headless session's store is empty, for nothing names
   a permission file for it (swarm.go:340, toolsets.go:416-418). *)
Store(interactive) == IF interactive THEN rules ELSE {}

Quiet ==
  /\ review' = "off" /\ fs' = Bare
  /\ asked' = None /\ observed' = <<>> /\ confirmed' = <<>>
  /\ changes' = 0 /\ ctxDone' = FALSE /\ verdict' = None

Nobody == [profile |-> "readonly", interactive |-> FALSE, review |-> Disabled]

Init ==
  /\ session = Nobody /\ sessions = 0
  /\ call \in Calls
  /\ rules = {} /\ gate = "none" /\ by = None
  /\ review = "off" /\ fs = Bare
  /\ asked = None /\ observed = <<>> /\ confirmed = <<>>
  /\ changes = 0 /\ ctxDone = FALSE /\ verdict = None

(* A session is built, for an interactive user or headless, and some role's
   tool call asks its gate. *)
OpenSession ==
  /\ gate = "none" /\ sessions < MaxSessions
  /\ sessions' = sessions + 1
  /\ \E profile \in ProfileNames, interactive \in BOOLEAN,
        program, file \in Policies \cup {None} :
       /\ session' = [profile |-> profile, interactive |-> interactive,
                      review |-> Registration(profile, program, file)]
       /\ call' \in Calls
       /\ Authorize(session', call', Store(interactive))
  /\ UNCHANGED rules
  /\ Quiet

(* The human approves once, approves always for this workspace, or denies. *)
HumanAnswers ==
  /\ gate = "open"
  /\ gate' \in {"granted", "refused"} /\ by' = "human"
  /\ \/ UNCHANGED rules
     \/ gate' = "granted" /\ rules' = rules \cup {call.kind}
  /\ UNCHANGED <<session, sessions, call>>
  /\ Quiet

CallEnds ==
  /\ gate \in {"granted", "refused"}
  /\ gate' = "none" /\ by' = None
  /\ UNCHANGED tool
  /\ Quiet

-----------------------------------------------------------------------------
(* The review of an open gate *)

Reviewing(stage) == gate = "open" /\ review = stage

StartReview ==
  /\ Reviewing("off") /\ session.review.enabled
  /\ review' = "gathering"
  /\ fs' \in FileSystems
  /\ UNCHANGED <<tool, gate, by, evidence, changes, ctxDone, verdict>>

(* VerifyEvidenceContainment; a refusal is the evidence tool's error. *)
VerifyEvidenceContainment(t) ==
  /\ Reviewing("gathering") /\ asked = None
  /\ \A i \in DOMAIN observed : observed[i].target # CanonicalRoot(fs) \o t
  /\ ~ctxDone /\ session.review.ceiling = session.review.containment
  /\ Contained(fs, t)
  /\ asked' = t
  /\ UNCHANGED <<tool, gate, by, review, fs, observed, confirmed, changes, ctxDone, verdict>>

(* The tool reads through os.Root and records the target's token. *)
ReadEvidence ==
  /\ Reviewing("gathering") /\ asked # None
  /\ asked' = None
  /\ LET target == CanonicalRoot(fs) \o asked
         token == Fingerprint(fs, target) IN
       IF token.is = "error" THEN UNCHANGED observed
       ELSE observed' = Append(observed, [target |-> target, token |-> token,
                                          saw |-> Stat(fs, target)])
  /\ UNCHANGED <<tool, gate, by, review, fs, confirmed, changes, ctxDone, verdict>>

Assess ==
  /\ Reviewing("gathering") /\ asked = None
  /\ verdict' \in Verdicts
  /\ review' = IF Eligible(session.review.policy, verdict') THEN "rechecking" ELSE "ineligible"
  /\ UNCHANGED <<tool, gate, by, fs, evidence, changes, ctxDone>>

(* VerifyEvidenceObservations, one requirement after the other; the context
   is looked at before the first. *)
VerifyEvidenceObservations ==
  /\ Reviewing("rechecking")
  /\ IF confirmed = <<>> /\ ctxDone
     THEN review' = "cut off" /\ UNCHANGED confirmed
     ELSE IF session.review.ceiling # session.review.observation
     THEN review' = "stale" /\ UNCHANGED confirmed
     ELSE IF Len(confirmed) = Len(observed)
     THEN review' = "confirmed" /\ UNCHANGED confirmed
     ELSE LET next == observed[Len(confirmed) + 1] IN
          IF Unchanged(fs, next)
          THEN confirmed' = Append(confirmed, Stat(fs, next.target)) /\ UNCHANGED review
          ELSE review' = "stale" /\ UNCHANGED confirmed
  /\ UNCHANGED <<tool, gate, by, fs, asked, observed, changes, ctxDone, verdict>>

(* The approval claims the gate, unless the human has answered it. *)
ClaimGate ==
  /\ Reviewing("confirmed")
  /\ gate' = "granted" /\ by' = "classifier"
  /\ UNCHANGED <<tool, review, fs, evidence, changes, ctxDone, verdict>>

WorkspaceChanges ==
  /\ gate = "open" /\ review \in {"gathering", "rechecking"}
  /\ \E p \in DOMAIN fs : \E entry \in Choice[p] \ {fs[p]} : fs' = Changed(fs, p, entry)
  /\ changes < MaxChanges /\ changes' = changes + 1
  /\ UNCHANGED <<tool, gate, by, review, evidence, ctxDone, verdict>>

CtxEnds ==
  /\ gate = "open" /\ review \in {"gathering", "rechecking"} /\ ~ctxDone
  /\ ctxDone' = TRUE
  /\ UNCHANGED <<tool, gate, by, review, fs, evidence, changes, verdict>>

Next ==
  \/ OpenSession \/ HumanAnswers \/ CallEnds
  \/ StartReview \/ (\E t \in Targets : VerifyEvidenceContainment(t)) \/ ReadEvidence
  \/ Assess \/ VerifyEvidenceObservations \/ ClaimGate
  \/ WorkspaceChanges \/ CtxEnds

Spec == Init /\ [][Next]_vars

-----------------------------------------------------------------------------
(* The containment check agrees with what following the path comes to.  It
   passes what exists exactly when it lies within the workspace, and refuses a
   loop or a file where a directory is named.  Of a path that does not exist it
   passes exactly those whose first missing name belongs to a directory within,
   however many names are missing (permission_review_evidence.go:148-270).  A
   link that leads to nothing is such a name, wherever it points to: what is
   reattached need not be "by definition non-existent, so symlink-free" (237-239). *)
ContainmentIsExact ==
  \A t \in Targets :
    LET path == CanonicalRoot(fs) \o t
        found(n) == EvalSymlinks(fs, SubSeq(path, 1, n))
        missing(n) == found(n) = Error("absent")
        end == found(Len(path)) IN
    IF missing(Len(path))
    THEN \E n \in 1..(Len(path) - 1) :
           /\ found(n).is = "path" /\ missing(n + 1)
           /\ Contained(fs, t) <=> Within(found(n).path)
    ELSE Contained(fs, t) <=> end.is = "path" /\ Within(end.path)

(* However the workspace changed meanwhile, a classifier's approval counts
   only if each file it looked at still showed, when it was rechecked, what
   the classifier had seen, through links and all
   (permission_review_observation.go:75-125). *)
ApprovedAsSeen ==
  by = "classifier" => confirmed = [i \in DOMAIN observed |-> observed[i].saw]

(* In a workspace that did not change, the recheck never stands in the way of
   an approval: tokens, targets and ceilings are computed alike on both sides
   ("the two can never independently drift", permission_review.go:75-79). *)
UnchangedIsNeverStale == review = "stale" => changes > 0

(* Whatever rules earlier sessions left, under any profile: planner and
   reviewer never write, use the network or read outside the workspace; a
   builder outside the workspace only with somebody's approval or unconfined.
   A classifier approves only in trusted sessions, and within the default
   policy even where the strict one is chosen (access.go:114-145). *)
GrantsFollowTheProfile ==
  gate = "granted" =>
    /\ call.role # "builder" \/ session.profile = "readonly"
         => call.kind \in {"read", "command"} \cup ProductKinds
    /\ by = "access" =>
         /\ call.kind \notin ProductKinds
         /\ call.kind = "hostWrite" => session.profile = "unconfined"
    /\ by \in {"human", "classifier"} => session.interactive
    /\ by = "classifier" =>
         /\ session.profile = "trusted"
         /\ verdict \notin {"high", "critical"}
         /\ session.review.policy = "strict" => verdict = "low"

=============================================================================
