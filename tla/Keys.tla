-------------------------------- MODULE Keys --------------------------------
(***************************************************************************)
(* Where the commands take their keys from: the flags of cmd/secret-proxy  *)
(* with their environment variables as defaults, loadPrivateKey,           *)
(* loadPreviousPrivateKey, resolvePublicKey, and the parsers of            *)
(* internal/seal.                                                          *)
(*                                                                         *)
(* A source is a record [st, key]: st is "unset" (no flag, an empty        *)
(* variable), "blank" (the flag, given as an empty string), "hex" (the     *)
(* digits of key, blanks around them allowed), "pem", "short" (hex of      *)
(* another length) or "unreadable" (a file that cannot be read).  A file   *)
(* source stands for the path together with what the file holds.           *)
(***************************************************************************)
CONSTANTS
    NoKey,      \* no key: the optional previous key is not configured
    BadKey      \* the error return of the functions below

Unset == [st |-> "unset", key |-> NoKey]
Given(source) == source.st \notin {"unset", "blank"}

\* A flag whose default is the value of an environment variable.
FlagOr(flag, env) == IF flag.st # "unset" THEN flag ELSE env

\* ParsePrivateKey and ParsePublicKey: 32 bytes in hex and nothing else.
ParsePrivateKey(source) == IF source.st = "hex" THEN source.key ELSE BadKey
ParsePublicKey(source) == IF source.st = "hex" THEN source.key ELSE BadKey

ReadPrivateKeyFile(file) == IF file.st = "unreadable" THEN BadKey ELSE ParsePrivateKey(file)

loadPrivateKey(file, hex) ==
    IF Given(file) THEN ReadPrivateKeyFile(file)
    ELSE IF Given(hex) THEN ParsePrivateKey(hex) ELSE BadKey

loadPreviousPrivateKey(file, hex) ==
    IF Given(file) THEN ReadPrivateKeyFile(file)
    ELSE IF Given(hex) THEN ParsePrivateKey(hex) ELSE NoKey

\* resolvePublicKey: the flag, then SECRET_PROXY_PUBLIC_KEY, and only when both
\* are empty the URL.  url is [given, https, answer]: whether the flag is there
\* and has the scheme https, and the body of a 200 answer ("unreadable": the
\* request failed or was answered with another status).
resolvePublicKey(hexFlag, env, url) ==
    IF Given(hexFlag) THEN ParsePublicKey(hexFlag)
    ELSE IF Given(env) THEN ParsePublicKey(env)
    ELSE IF url.given /\ url.https THEN ParsePublicKey(url.answer) ELSE BadKey

=============================================================================
