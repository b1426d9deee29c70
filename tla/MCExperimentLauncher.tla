------------------------- MODULE MCExperimentLauncher -------------------------
(***************************************************************************)
(* Instance of ExperimentLauncher: two scenarios, one with a single case,   *)
(* one of three cases in which the first method is not ready.               *)
(***************************************************************************)
EXTENDS ExperimentLauncher

MCMatrix == <<[cases |-> <<4>>, methods |-> <<"single">>],
              [cases |-> <<2, 3, 5>>, methods |-> <<"notReady", "workflow">>]>>

Left(l, up) == [lock |-> l, up |-> up]

(* Nothing is left; a dead launcher's slot with its simulator, and one      *)
(* without; a living launcher's slots.                                      *)
MCLeftovers == {<<Left("free", FALSE), Left("free", FALSE), Left("free", FALSE)>>,
                <<Left("stale", TRUE), Left("stale", FALSE), Left("free", FALSE)>>,
                <<Left("other", TRUE), Left("other", TRUE), Left("stale", FALSE)>>}
=============================================================================
