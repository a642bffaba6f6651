-------------------------------- MODULE MCBackdrop --------------------------------
(* Boards of five by five with a glider, a block and a lone cell; walls of two *)
(* columns.                                                                    *)
EXTENDS Backdrop

Glider == {<<1, 0>>, <<2, 1>>, <<0, 2>>, <<1, 2>>, <<2, 2>>}
Block == {<<1, 1>>, <<1, 2>>, <<2, 1>>, <<2, 2>>}
Blinker == {<<1, 2>>, <<2, 2>>, <<3, 2>>}
Seeds == {Glider, Block, {<<2, 2>>}}

\* A glider is where it was, one cell further down, after four generations; a block
\* stays and a blinker turns.
ASSUME Patterns ==
  /\ Generation(Generation(Generation(Generation(Glider)))) =
       {<<(c[1] + 1) % 5, (c[2] + 1) % 5>> : c \in Glider}
  /\ Generation(Block) = Block
  /\ Generation(Blinker) # Blinker /\ Generation(Generation(Blinker)) = Blinker

SomeWalls == {<<1, 2>>}
================================================================================
