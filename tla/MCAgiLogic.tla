----------------------------- MODULE MCAgiLogic ------------------------------
\* A game with two logics, one view and one picture, and the number 2 that is
\* missing in another way in each directory.
EXTENDS AgiLogic

MCNums    == 0 .. 2
MCCodeEnd == [n \in MCNums |-> IF n = 0 THEN 4 ELSE 3]
MCEntry   == [LOG  |-> [n \in MCNums |-> IF n = 2 THEN "bad" ELSE "ok"],
              PIC  |-> [n \in MCNums |-> IF n = 2 THEN "past" ELSE "ok"],
              VIEW |-> [n \in MCNums |-> IF n = 2 THEN "novol" ELSE "ok"]]
==============================================================================
