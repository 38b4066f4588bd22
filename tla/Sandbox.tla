------------------------------ MODULE Sandbox ------------------------------
(***************************************************************************)
(* The permission gate every tool call goes through, whether the caller is *)
(* the agentic loop (ask, watch) or an MCP handler: the permission levels  *)
(* of internal/tool and the decision taken by internal/sandbox.            *)
(***************************************************************************)
EXTENDS Integers

PermissionReadOnly  == 0
PermissionWrite     == 1
PermissionDangerous == 2
Permissions == {PermissionReadOnly, PermissionWrite, PermissionDangerous}

ModeReadOnly == 0
ModeConfirm  == 1

\* Mutant of Permits: the comparison is off by one level.
PermitsUpToWrite(mode, perm) ==
  mode \in {ModeReadOnly, ModeConfirm} => perm <= PermissionWrite

(***************************************************************************)
(* Execute delegates to the tool exactly when Permits holds.  The switch   *)
(* has a case for each of the two modes and no default, so a value that is *)
(* neither of them blocks nothing.                                         *)
(***************************************************************************)
Permits(mode, perm) ==
  mode \in {ModeReadOnly, ModeConfirm} => perm <= PermissionReadOnly
=============================================================================
