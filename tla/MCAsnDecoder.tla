----------------------------- MODULE MCAsnDecoder -----------------------------
(* Instances of AsnDecoder for TLC.                                        *)
EXTENDS AsnDecoder

\* Built with one of the two ASN.1 libraries.
OneLibrary == BOOLEAN
=============================================================================
