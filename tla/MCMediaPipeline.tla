-------------------------- MODULE MCMediaPipeline --------------------------
(* Instances of MediaPipeline for TLC.                                     *)
EXTENDS MediaPipeline, TLC

\* The orders of _wfd_capture_backend_order with a fallback; "portal-ffmpeg" is
\* the portal back end when the receiver wants AOSP's tables.
MCOrders == {<<"portal", "wf-recorder">>, <<"portal-ffmpeg", "wf-recorder">>,
             <<"wf-recorder", "x11grab">>}
=============================================================================
