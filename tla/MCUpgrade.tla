----------------------------- MODULE MCUpgrade -----------------------------
(***************************************************************************)
(* Instances of Upgrade for TLC.  The two zsh files are treated alike by   *)
(* the code and are one file here.                                         *)
(***************************************************************************)
EXTENDS Upgrade, Functions

CONSTANTS bin, zsh, env, u1, u2

\* As GoReleaser writes them: the binary behind everything else.  One release
\* carries a member twice, one lacks the binary.
BinaryLast == {<<zsh, env, bin>>, <<env, zsh, zsh, bin>>, <<env, zsh>>}
=============================================================================
