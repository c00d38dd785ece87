----------------------------- MODULE Libraries -----------------------------
(***************************************************************************)
(* A program that uses one of the libraries beside the servers, or the     *)
(* descriptor helpers of ctserver's ctutils.  They do not call each other  *)
(* and share nothing, so one at a time is enough.                          *)
(***************************************************************************)
EXTENDS MysqlApi, ApiMc, CurlApi, Base64, Utf8, StrAlloc, Opus, FdMove

ASSUME LibrariesAssumption == <<>> \in Texts /\ <<>> \in Strings

VARIABLE library

vars == <<library, mysqlVars, mcVars, curlVars, b64Vars, utf8Vars, strVars, opusVars, fdVars>>

\* The libraries that are not used start in one state each.
Init ==
    /\ library \in {"mysql_api", "ctapi_mc", "ctapi_curl", "base64", "str_utf8",
                    "libstralloc", "opus_api", "ctutils"}
    /\ MysqlInit /\ (library # "mysql_api" => ~reachable)
    /\ McInit /\ CurlInit /\ StrInit
    /\ Base64Init /\ (library # "base64" => text = <<>>)
    /\ Utf8Init /\ (library # "str_utf8" => str = <<>>)
    /\ OpusInit /\ (library # "opus_api" => samples = 0 /\ packets = <<>>)
    /\ FdInit /\ (library # "ctutils" => \A i \in Fds : fd[i] = "free")

UsesMysqlApi ==
    /\ library = "mysql_api" /\ MysqlNext
    /\ UNCHANGED <<library, mcVars, curlVars, b64Vars, utf8Vars, strVars, opusVars, fdVars>>

UsesApiMc ==
    /\ library = "ctapi_mc" /\ McNext
    /\ UNCHANGED <<library, mysqlVars, curlVars, b64Vars, utf8Vars, strVars, opusVars, fdVars>>

UsesCurlApi ==
    /\ library = "ctapi_curl" /\ CurlNext
    /\ UNCHANGED <<library, mysqlVars, mcVars, b64Vars, utf8Vars, strVars, opusVars, fdVars>>

UsesBase64 ==
    /\ library = "base64" /\ Base64Next
    /\ UNCHANGED <<library, mysqlVars, mcVars, curlVars, utf8Vars, strVars, opusVars, fdVars>>

UsesUtf8 ==
    /\ library = "str_utf8" /\ Utf8Next
    /\ UNCHANGED <<library, mysqlVars, mcVars, curlVars, b64Vars, strVars, opusVars, fdVars>>

UsesStrAlloc ==
    /\ library = "libstralloc" /\ StrNext
    /\ UNCHANGED <<library, mysqlVars, mcVars, curlVars, b64Vars, utf8Vars, opusVars, fdVars>>

UsesOpus ==
    /\ library = "opus_api" /\ OpusNext
    /\ UNCHANGED <<library, mysqlVars, mcVars, curlVars, b64Vars, utf8Vars, strVars, fdVars>>

UsesFdMove ==
    /\ library = "ctutils" /\ FdNext
    /\ UNCHANGED <<library, mysqlVars, mcVars, curlVars, b64Vars, utf8Vars, strVars,
                   opusVars>>

Next ==
    \/ UsesMysqlApi \/ UsesApiMc \/ UsesCurlApi \/ UsesBase64 \/ UsesUtf8
    \/ UsesStrAlloc \/ UsesOpus \/ UsesFdMove

Spec == Init /\ [][Next]_vars
=============================================================================
