----------------------------- MODULE SizeLimits -----------------------------
(***************************************************************************)
(* How large a photo may be: the page's own limit (web/app.js), what       *)
(* encryption and the multipart form add to it, and the two limits of the  *)
(* upload handler (handlers.go), which Go computes in int64.  A size is a  *)
(* number of bytes.                                                        *)
(***************************************************************************)
EXTENDS Integers

CONSTANTS
    MaxFileSize,    \* MAX_FILE_SIZE of the server's configuration
    IntMax          \* the largest int64

ASSUME SizeAssumption == IntMax \in Nat /\ MaxFileSize \in 1..IntMax

(* app.js MAX_SIZE: 15 MiB, whatever the server is configured with.        *)
PageLimit == 15 * 1024 * 1024

(* What nacl.secretbox and the nonce in front of it add.                   *)
CryptoOverhead == 24 + 16
Sealed(size) == CryptoOverhead + size

(* int64 addition, for a sum below 2 * IntMax.                             *)
AddInt64(a, b) == IF a + b > IntMax THEN a + b - 2 * (IntMax + 1) ELSE a + b
-----------------------------------------------------------------------------
(* Faulty variants: one plausible slip each.                               *)

(* No room is left for the multipart form around the photo.                *)
BodyLimitOfPayload == AddInt64(MaxFileSize, CryptoOverhead)
-----------------------------------------------------------------------------
(* http.MaxBytesReader takes a negative limit for 0.                       *)
BodyLimit == LET n == AddInt64(MaxFileSize, 1024) IN IF n < 0 THEN 0 ELSE n
PayloadLimit == AddInt64(MaxFileSize, CryptoOverhead)

(* What the upload handler answers 413 to: framing is what the form adds   *)
(* around the payload, its name and its type.                              *)
TooLarge(payload, framing) ==
    payload + framing > BodyLimit \/ payload > PayloadLimit

(* The framing that a photo as large as the server allows leaves room for. *)
FramingSlack == 1024 - CryptoOverhead
============================================================================
