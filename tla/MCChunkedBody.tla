---------------------------- MODULE MCChunkedBody ----------------------------
(* Instances of ChunkedBody: payloads of up to three bytes in chunks of    *)
(* every size, read with buffers of one to three bytes, with one fault.    *)
EXTENDS ChunkedBody

AllModes == {"signed", "signedTrailer", "unsignedTrailer", "hash"}
=============================================================================
