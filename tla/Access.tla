------------------------------- MODULE Access -------------------------------
(***************************************************************************)
(* What a CodeRig session may do (internal/app/access.go and the gate      *)
(* wiring of toolsets.go): the three product profiles, the restriction of  *)
(* planner and reviewer, and how a role's gate routes what a tool call     *)
(* requires to the profile or to the product's own access source.          *)
(***************************************************************************)
EXTENDS Naturals

Roles == {"planner", "builder", "reviewer"}
ProfileNames == {"readonly", "trusted", "unconfined"}

\* What a tool call requires, a file's two places told apart.
SandboxKinds == {"read", "write", "hostRead", "hostWrite", "network", "command"}
ProductKinds == {"tool.invoke", "context.load"}
Kinds == SandboxKinds \cup ProductKinds

States == {"deny", "gated", "allow"}

Rank(state) == CHOOSE n \in 0..2 : state = <<"deny", "gated", "allow">>[n + 1]

\* A profile that allows, asks for, and otherwise denies; and its confinement.
ProfileOf(allowed, gated, sandboxed) ==
  [access |-> [k \in SandboxKinds |-> IF k \in allowed THEN "allow"
                                      ELSE IF k \in gated THEN "gated" ELSE "deny"],
   sandboxed |-> sandboxed]

ReadOnly == ProfileOf({"read"}, {"command"}, TRUE)

CoderigProfile(name) ==
  IF name = "readonly" THEN ReadOnly
  ELSE IF name = "trusted" THEN ProfileOf(SandboxKinds \ {"hostWrite"}, {"hostWrite"}, TRUE)
  ELSE ProfileOf(SandboxKinds, {}, FALSE)

(* sandbox.Restrict: the less authoritative value of every field. *)
SandboxRestrict(base, ceiling) ==
  [access |-> [k \in SandboxKinds |->
                 IF Rank(base.access[k]) < Rank(ceiling.access[k])
                 THEN base.access[k] ELSE ceiling.access[k]],
   sandboxed |-> base.sandboxed \/ ceiling.sandboxed]

RestrictToReadOnly(selected) == SandboxRestrict(selected, ReadOnly)

(* Seeded fault of RoleProfile: the planner is not restricted. *)
RoleProfilePlanner(role, name) ==
  IF role = "reviewer" THEN RestrictToReadOnly(CoderigProfile(name)) ELSE CoderigProfile(name)

(* The profile a role's executors enforce and its gate asks. *)
RoleProfile(role, name) ==
  IF role = "builder" THEN CoderigProfile(name) ELSE RestrictToReadOnly(CoderigProfile(name))

(* The role's profile for what has a sandbox meaning; invoking an external
   tool and loading a skill are always gated. *)
AccessFor(role, name, kind) ==
  IF kind \in ProductKinds THEN "gated" ELSE RoleProfile(role, name).access[kind]

=============================================================================
