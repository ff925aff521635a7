------------------------------- MODULE Seals -------------------------------
(***************************************************************************)
(* Sealed secrets: the types and operations of internal/seal that the      *)
(* proxy's handler calls.                                                  *)
(*                                                                         *)
(* Cryptography is ideal: a blob opens with the private key of the public  *)
(* key it was sealed to and with no other, and sha256 has no collisions.   *)
(* Anyone who has the public key can seal anything, so the body of a blob  *)
(* need not have passed Seal.                                              *)
(*                                                                         *)
(* A secret is a record with the fields                                    *)
(*   json       the plaintext decodes with DisallowUnknownFields           *)
(*   auth       the auth tags present, a subset of AuthTags                *)
(*   digest     of bearer_auth: [kind, of]; kind is "empty", "malformed"   *)
(*              or "sha256", of is the token that was hashed: [text,       *)
(*              padded], padded when there are blanks around the text      *)
(*   inject     whether inject_header is present; its token, format and    *)
(*              headerName ("" when not set), allowedFormats and           *)
(*              allowedHeaderNames                                         *)
(*   hosts, hostPattern, prefixes, pathPattern, methods   the allowlists;  *)
(*              a pattern is the set it matches, or NoPattern              *)
(*   anchored   both patterns are anchored at both ends                    *)
(*   clean      no control character in anything that becomes a header     *)
(***************************************************************************)
EXTENDS Paths

CONSTANT NoKey      \* no previous private key is configured

AuthTags == {"bearer_auth", "no_auth"}
NoBearer == [text |-> "", padded |-> FALSE]

\* The zero value of Secret.
NoSecret ==
    [ json |-> TRUE, auth |-> {}, digest |-> [kind |-> "empty", of |-> NoBearer], inject |-> FALSE,
      token |-> "", format |-> "", headerName |-> "", allowedFormats |-> {},
      allowedHeaderNames |-> {}, hosts |-> {}, hostPattern |-> NoPattern, prefixes |-> {},
      pathPattern |-> NoPattern, methods |-> {}, anchored |-> TRUE, clean |-> TRUE ]

\* sha256 of the token as it is, with its blanks.
HashBearer(token) == [kind |-> "sha256", of |-> token]

\* ConstantTimeCompare of sha256(presented) with the decoded digest.
VerifyBearer(digest, presented) == digest = HashBearer(presented)

Validate(s) ==
    /\ \E t \in AuthTags : s.auth = {t}
    /\ s.inject
    /\ (s.hosts = {}) # (s.hostPattern = NoPattern)
    /\ s.prefixes = {} \/ s.pathPattern = NoPattern
    /\ s.anchored
    /\ "bearer_auth" \in s.auth => s.digest.kind # "empty"
    /\ s.token # ""
    /\ s.clean

\* box.OpenAnonymous; a blob that is not base64 opens with no key.
tryOpen(blob, key) == blob.kind = "sealed" /\ blob.key = key

\* Open tries the current key, then the previous one if there is one.
OpensWith(blob, key, previous) ==
    tryOpen(blob, key) \/ (previous # NoKey /\ tryOpen(blob, previous))

UsedFallback(blob, key, previous) ==
    ~ tryOpen(blob, key) /\ previous # NoKey /\ tryOpen(blob, previous)

\* Open returns no error: decryption, strict decoding and Validate succeed.
OpenOK(blob, key, previous) ==
    OpensWith(blob, key, previous) /\ blob.body.json /\ Validate(blob.body)

\* The blob Seal makes of s for a public key.  Seal refuses what Validate
\* refuses; box.SealAnonymous, which anyone can call, does not.
Sealed(s, pub) == [kind |-> "sealed", key |-> pub, body |-> s]

=============================================================================
