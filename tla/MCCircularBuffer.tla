-------------------------- MODULE MCCircularBuffer --------------------------
(* A ring of three cells, two byte values and five bytes per history: the  *)
(* indices wrap, and a putback crosses the wrap.                           *)
EXTENDS CircularBuffer
=============================================================================
