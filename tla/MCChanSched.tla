----------------------------- MODULE MCChanSched -----------------------------
(* Instances of ChanSched: three goroutines, an unbuffered and a buffered   *)
(* channel, and select statements that mix them.                            *)
EXTENDS ChanSched, TLC

CONSTANTS main, g1, g2, un, bf

MCGoroutine == {main, g1, g2}
MCChan == {un, bf}
MCCap == [c \in MCChan |-> IF c = bf THEN 1 ELSE 0]

S(c) == [dir |-> "send", ch |-> c]
R(c) == [dir |-> "recv", ch |-> c]

MCSelectCases == {<<S(un), R(bf)>>, <<R(un), R(bf)>>, <<S(bf), S(un)>>, <<S(un), R(un)>>}

MCSymmetry == Permutations({g1, g2})
=============================================================================
