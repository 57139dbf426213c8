---------------------------- MODULE MCRegistration ----------------------------
(***************************************************************************)
(* Two emails and two handles, the first of each typed in two ways.        *)
(***************************************************************************)
EXTENDS Registration, TLC

CONSTANTS ana, Ana, bo, atana, atAna, atbo

MCEmail == {ana, Ana, bo}
MCHandle == {atana, atAna, atbo}
MCLower == [x \in MCEmail \cup MCHandle |->
              CASE x = Ana -> ana [] x = atAna -> atana [] OTHER -> x]
MCInstitution == {bo}
===============================================================================
