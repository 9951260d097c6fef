--------------------------- MODULE MCHeaderReader ---------------------------
(* HeaderReader with three kinds of bytes: CR, LF and any other.           *)
EXTENDS HeaderReaderProperties

CONSTANTS cr, lf, other
=============================================================================
