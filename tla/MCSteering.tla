---------------------------- MODULE MCSteering ----------------------------
(* Two of the four arrows; a third only adds renamings.                    *)
EXTENDS Steering

CONSTANTS left, right

MCKey == {left, right}
=============================================================================
