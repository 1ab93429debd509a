----------------------------- MODULE SignedURL -----------------------------
(***************************************************************************)
(* Signed test URLs (server/sign.go): what SignURL puts into a URL and     *)
(* what verifySignature accepts.  An expiry is a whole number of unix      *)
(* seconds; clocks run in ticks, Second of them per second.                *)
(*                                                                         *)
(* HMAC-SHA256 is collision-free here: a signature is the tuple of what is *)
(* signed.  The code joins path, exp and sub with newlines; no served path *)
(* and no decimal number holds one, so the joined text names one tuple.    *)
(***************************************************************************)
EXTENDS Integers

CONSTANTS
  Second,    \* clock ticks per second
  Leeway,    \* SignatureLeeway, in ticks
  MaxTTL,    \* MaxSignatureTTL, in ticks
  MaxInt,    \* math.MaxInt64, in seconds
  Epoch,     \* seconds from time.Time's zero to the unix epoch
  TooLong    \* the subjects longer than maxSubjectLen

Int64 == (0 - MaxInt - 1)..MaxInt
Wrap(x) == ((x + MaxInt + 1) % (2 * (MaxInt + 1))) - MaxInt - 1

\* time.Time.Unix and time.Unix: the latter adds the epoch in 64 bits.
Unix(t) == t \div Second
UnixTime(e) == Second * (Wrap(e + Epoch) - Epoch)

signature(key, path, exp, sub) == <<key, path, exp, sub>>

\* SignURL: the parameters it adds for an expiry time; callers keep sub short.
SignURL(key, path, exp, sub) ==
  [path |-> path, exp |-> Unix(exp), sub |-> sub, sig |-> signature(key, path, Unix(exp), sub)]

\* The window test of verifySignature, as bugs would have it.
InWindowOpenEnded(expAt, t) == ~(t > expAt + Leeway)
InWindowStrictTTL(expAt, t) == ~(t > expAt + Leeway) /\ ~(expAt > t + MaxTTL)

InWindow(expAt, t) ==
  /\ ~(t > expAt + Leeway)
  /\ ~(expAt > t + MaxTTL + Leeway)

\* verifySignature: any of the keys may match; t is the server's clock.
verifySignature(url, keys, t) ==
  /\ url.exp \in Int64
  /\ InWindow(UnixTime(url.exp), t)
  /\ url.sub \notin TooLong
  /\ \E key \in keys : url.sig = signature(key, url.path, url.exp, url.sub)
=============================================================================
