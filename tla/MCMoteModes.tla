---------------------------- MODULE MCMoteModes ----------------------------
(* One mote of three.  Two readings of a running cow raise          *)
(* the alarm and the buffers of an emergency hold two samples.             *)
EXTENDS MoteModes
=============================================================================
