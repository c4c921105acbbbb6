---------------------------- MODULE MCHostThreads ----------------------------
(* Two writers, loggers and workers; queues small enough to fill and to wrap; *)
(* a window with two frames, with and without a thread that presents them.    *)
EXTENDS HostThreads

Program(timeline, use_present_thread, calls) ==
  [timeline |-> timeline, use_present_thread |-> use_present_thread, calls |-> calls]

Renders ==
  {Program(FALSE, TRUE, <<"render", "resize">>),
   Program(FALSE, TRUE, <<"render", "wait">>),
   Program(TRUE, TRUE, <<"render", "render", "render">>),
   Program(TRUE, TRUE, <<"render", "render", "resize">>),
   Program(TRUE, FALSE, <<"render", "resize", "render">>),
   Program(FALSE, FALSE, <<"wait", "resize">>)}

MCRenderPrograms == Renders
=============================================================================
