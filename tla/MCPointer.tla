----------------------------- MODULE MCPointer -----------------------------
(* Pointer for TLC: a Master of one screen, a Slave of one or two.         *)
EXTENDS Pointer

Screen(px, py, w, h) == [x |-> px, y |-> py, width |-> w, height |-> h]
MasterScreens == {Screen(0, 0, 4, 3)}
SlaveLayouts  == {{}, {Screen(1, 1, 3, 3)}, {Screen(0, 0, 3, 3), Screen(3, 1, 2, 3)}}
Arranged == [s \in {"s1", "s2"} |->
  IF s = "s1" THEN [dir |-> "Right", offset |-> 1] ELSE NoEntry]
Corners == {<<0, -3>>, <<-3, 1>>, <<5, -1>>}
SmallMoves == {<<-3, 0>>, <<2, 0>>, <<0, -3>>, <<0, 2>>, <<1, 3>>, <<-1, 1>>}
=============================================================================
