------------------------------ MODULE Timestamp ------------------------------
(***************************************************************************)
(* omega_evidence/timestamp.py: RFC 3161 tokens requested and verified by   *)
(* running openssl.  Pure operators over a host, which says what this       *)
(* machine and its time-stamping authority can do at the moment of a call:  *)
(*   openssl   "absent", "runs" or "fails" (present, but not started, or no *)
(*             answer within the timeout)                                   *)
(*   tmp       whether a temporary directory and file can be written        *)
(*   reply     what the TSA's HTTP service answers: "granted", a token for  *)
(*             another digest ("other"), or anything else ("error": no      *)
(*             connection, an error page, a rejection)                      *)
(* A token is the digest it is over and the authority that signed it.       *)
(***************************************************************************)
EXTENDS Naturals, Absent     \* None: no token, no trust anchor

CONSTANT Genuine     \* the authority whose roots the relying party holds

OpensslStates == {"absent", "runs", "fails"}
Replies       == {"granted", "other", "error"}
Hosts         == [openssl : OpensslStates, tmp : BOOLEAN, reply : Replies]

Token(digest, authority) == [over |-> digest, authority |-> authority]

\* Bytes that do not decode as a token (not base64).
Garbage == Token(None, None)

(***************************************************************************)
(* stamp(digest_hex, tsa_url): "anchored" with a token, "refused" (anchored *)
(* False, with a note), or "raised": mkdtemp is called before the try.      *)
(* bytes is the digest's length: the query is made with -sha256, which      *)
(* openssl refuses for any other length.  The reply is kept only when its   *)
(* imprint is this digest.                                                  *)
(***************************************************************************)
Stamp(host, digest, bytes) ==
    IF host.openssl = "absent" THEN [status |-> "refused", token |-> None]
    ELSE IF ~host.tmp THEN [status |-> "raised", token |-> None]
    ELSE IF /\ host.openssl = "runs"
            /\ bytes = 32
            /\ host.reply = "granted"
         THEN [status |-> "anchored", token |-> Token(digest, Genuine)]
         ELSE [status |-> "refused", token |-> None]

\* A faulty variant: an openssl that does not run refutes the token.
VerifyToken_FailsWhenNotRun(host, token, digest, anchor) ==
    IF host.openssl = "absent" \/ anchor = None THEN "unchecked"
    ELSE IF anchor # "missing" /\ ~host.tmp THEN "not_run"
    ELSE IF /\ host.openssl = "runs"
            /\ token = Token(digest, anchor) THEN "good" ELSE "bad"

(***************************************************************************)
(* verify(tsr_b64, digest, ca_file): "unchecked" (verified None), "good",   *)
(* "bad" (verified False), or "not_run" (CheckNotRun raised).  anchor is    *)
(* the authority whose roots ca_file holds, "missing" for a path that is no *)
(* file, None for no ca_file; garbage fails to decode after the temporary   *)
(* directory is made and before openssl starts.                             *)
(***************************************************************************)
VerifyToken(host, token, digest, anchor) ==
    IF host.openssl = "absent" \/ anchor = None THEN "unchecked"
    ELSE IF anchor = "missing" THEN "bad"
    ELSE IF ~host.tmp THEN "not_run"
    ELSE IF token = Garbage THEN "bad"
    ELSE IF host.openssl = "fails" THEN "not_run"
    ELSE IF token = Token(digest, anchor) THEN "good" ELSE "bad"
=============================================================================
