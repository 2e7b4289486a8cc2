---------------------------- MODULE MCFFSchedule ----------------------------
(***************************************************************************)
(* A graph for TLC.                                                        *)
(***************************************************************************)
EXTENDS FFSchedule, TLC

(* A receive and a computation race to the computation that needs both:    *)
(* the progress thread completes the one, the application's the other.     *)
(*      begin -> recv, copy -> sum -> send -> end                          *)
DiamondOps == {"begin", "recv", "copy", "sum", "send", "end"}
DiamondDependent ==
  "begin" :> <<"recv", "copy">> @@ "recv" :> <<"sum">> @@
  "copy" :> <<"sum">> @@ "sum" :> <<"send">> @@ "send" :> <<"end">> @@
  "end" :> <<>>
DiamondImmediate == {"begin", "copy", "sum", "end"}
=============================================================================
