---------------------------- MODULE MCGlzaSubstitute --------------------------
(***************************************************************************)
(* Instances of GlzaSubstitute for TLC: two finders, rings of a few        *)
(* commands, texts of nine symbols, and shorter ones for which there are   *)
(* no finders.                                                             *)
(***************************************************************************)
EXTENDS GlzaSubstitute, TLC

MCRules == ("S" :> <<"a", "b", "a">>) @@ ("T" :> <<"c", "c">>)

a == "a"
b == "b"
c == "c"

(* Matches inside regions, across one end and across the next; a region     *)
(* whose first match starts where the one before ends, inside it, or        *)
(* overlapping it; long copies.                                             *)
MCTexts == {
  <<a, b, a, b, a, b, a, b, a>>,
  <<a, a, b, a, b, a, b, a, c>>,
  <<c, c, c, c, c, c, c, c, c>>,
  <<b, c, c, b, b, b, a, b, a>>,
  <<a, b, b, b, b, b, b, b, b>>,
  <<a, b, a, c, c, c, b>>}
===============================================================================
