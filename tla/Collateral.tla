----------------------------- MODULE Collateral ------------------------------
(***************************************************************************)
(* The default of collateral, plugins/assets/AbstractCollateral.sol, which *)
(* every collateral plugin inherits.  The whole state is whenDefault: a    *)
(* plugin that is off stays IFFY until then, and may recover; from then on *)
(* it is DISABLED.                                                         *)
(***************************************************************************)
EXTENDS Integers

CONSTANT NEVER   \* type(uint256).max

Statuses == {"SOUND", "IFFY", "DISABLED"}

\* status()
StatusAt(whenDefault, now) ==
  CASE whenDefault = NEVER -> "SOUND"
    [] whenDefault # NEVER /\ whenDefault > now -> "IFFY"
    [] OTHER -> "DISABLED"

\* Mutation: every bad price after the first postpones the default.
MarkedPostponing(whenDefault, mark, delay, now) ==
  IF whenDefault <= now THEN whenDefault
  ELSE CASE mark = "SOUND" -> NEVER
         [] mark = "IFFY" -> IF whenDefault = NEVER THEN now + delay
                               ELSE whenDefault + delay
         [] mark = "DISABLED" -> now

\* markStatus(), as refresh() calls it: a default is final.
Marked(whenDefault, mark, delay, now) ==
  IF whenDefault <= now THEN whenDefault
  ELSE CASE mark = "SOUND" -> NEVER
         [] mark = "IFFY" ->
              IF now + delay < whenDefault THEN now + delay ELSE whenDefault
         [] mark = "DISABLED" -> now
=============================================================================
