-------------------------- MODULE SizeLimitsProofs --------------------------
(* What the upload handler's two limits let through, for every limit the   *)
(* server may be configured with.                                          *)
EXTENDS SizeLimits, TLAPS

(* handlers.go:88, the body limit does not wrap: a photo of at most        *)
(* MAX_FILE_SIZE bytes is admitted if its form needs no more than the      *)
(* slack.                                                                  *)
THEOREM SlackIsEnough ==
    ASSUME MaxFileSize + 1024 <= IntMax,
           NEW size \in 0..MaxFileSize, NEW framing \in 0..FramingSlack
    PROVE  ~TooLarge(Sealed(size), framing)
<1>1. BodyLimit = MaxFileSize + 1024
  BY SizeAssumption DEF BodyLimit, AddInt64
<1>2. PayloadLimit = MaxFileSize + 40
  BY SizeAssumption DEF PayloadLimit, AddInt64, CryptoOverhead
<1>3. Sealed(size) = 40 + size /\ framing <= 984
  BY SizeAssumption DEF Sealed, CryptoOverhead, FramingSlack
<1>4. QED
  BY <1>1, <1>2, <1>3, SizeAssumption DEF TooLarge, FramingSlack, CryptoOverhead

(* The slack is not a byte larger: a photo of exactly MAX_FILE_SIZE bytes  *)
(* in a longer form, as a long file name makes it, is refused.             *)
THEOREM SlackIsExact ==
    ASSUME MaxFileSize + 1024 <= IntMax,
           NEW framing \in Nat, framing > FramingSlack
    PROVE  TooLarge(Sealed(MaxFileSize), framing)
<1>1. BodyLimit = MaxFileSize + 1024
  BY SizeAssumption DEF BodyLimit, AddInt64
<1>2. QED
  BY <1>1, SizeAssumption DEF TooLarge, Sealed, FramingSlack, CryptoOverhead

(* config.go admits any positive int64 as MAX_FILE_SIZE; within 1024 of    *)
(* the largest the sum of handlers.go:88 wraps and every upload is         *)
(* refused, however small.                                                 *)
THEOREM WrappedLimitRefusesAll ==
    ASSUME IntMax >= 1024, MaxFileSize + 1024 > IntMax,
           NEW size \in Nat, NEW framing \in Nat
    PROVE  TooLarge(Sealed(size), framing)
<1>1. BodyLimit = 0
  BY SizeAssumption DEF BodyLimit, AddInt64
<1>2. Sealed(size) + framing > 0
  BY DEF Sealed, CryptoOverhead
<1>3. QED
  BY <1>1, <1>2 DEF TooLarge
============================================================================
