------------------------------ MODULE Release --------------------------------
(***************************************************************************)
(* How the updater gets a release: NewChecker and release.go, and the      *)
(* requests of autoStage.  Three bodies are fetched one after the other,   *)
(* the metadata, the checksums and the binary; each may be redirected,     *)
(* refused, cut off, too long, or say anything.  Updater takes the outcome *)
(* of this as a choice.                                                    *)
(*                                                                         *)
(* Of a URL it matters whether it is trusted (https to a GitHub host),     *)
(* well-formed ("foreign") or neither; of a body, its length and what the  *)
(* code looks at.  A loop over assets or lines is one action per round,    *)
(* and what is in the next round is the sender's choice.                   *)
(***************************************************************************)
EXTENDS Integers, FiniteSets, Sequences

CONSTANTS Limit,         \* metadataLimit, checksumsLimit, assetLimit
          Injections,    \* whether WithHTTPClient is among the options
          Proxies,       \* UPDATE_HTTP_PROXY: "", "http" or "other"
          Environments,  \* whether the environment names a proxy
          Digests,       \* SHA-256 digests
          MaxRedirects,  \* bound on the redirects of a request
          MaxAssets,     \* bound on the assets of a release
          MaxLines       \* bound on the lines of checksums.txt

ASSUME ReleaseAssumption ==
  /\ Limit \in Nat /\ MaxRedirects \in Nat /\ MaxAssets \in Nat /\ MaxLines \in Nat
  /\ Digests # {} /\ "none" \notin Digests

VARIABLES official,  \* c.baseURL is GitHub's
          settings,  \* the options and the environment of the process
          client,    \* c.client
          at, url, redirects,
          assets,    \* release.Assets
          found,     \* the digest that ParseChecksum has found
          asked,     \* history: where requests went
          kept,      \* history: the bodies that were used
          lines      \* history: the lines of checksums.txt read so far

config == <<official, settings, client>>
request == <<url, redirects, asked>>
releaseVars == <<config, at, request, assets, found, kept, lines>>

URLs  == {"trusted", "foreign", "invalid"}
Asset == [name : {"binary", "checksums.txt", "other", ""}, url : URLs]

(* Lines: blank, not of two fields, or a name with something that may be a *)
(* digest.                                                                 *)
Blank     == [kind |-> "blank", name |-> "", digest |-> "none"]
Malformed == [kind |-> "malformed", name |-> "", digest |-> "none"]
Lines     == {Blank, Malformed} \cup
             [kind : {"entry"}, name : {"binary", "other"}, digest : Digests \cup {"none"}]

Requesting == {"metadata", "checksums", "binary"}
Refused  == {"request failed", "bad release", "bad checksums", "bad binary"}

ReleaseTypeOK ==
  /\ official \in BOOLEAN
  /\ settings \in [injected : Injections, proxy : Proxies, env : Environments]
  /\ client \in [kind : {"default", "injected"}, route : {"direct", "proxy", "env"}]
  /\ at \in Requesting \cup Refused \cup {"new", "decode", "assets", "lines", "verified"}
  /\ url \in URLs /\ redirects \in 0..MaxRedirects
  /\ assets \in Seq(Asset) /\ Len(assets) <= MaxAssets
  /\ \A i, j \in DOMAIN assets : assets[i].name = assets[j].name => i = j
  /\ found \in Digests \cup {"none"}
  /\ Len(lines) <= MaxLines

(* Defaults of NewChecker before the options. *)
ReleaseInit ==
  /\ official \in BOOLEAN
  /\ settings \in [injected : Injections, proxy : Proxies, env : Environments]
  /\ client = [kind |-> "default", route |-> "direct"]
  /\ at = "new" /\ url = "trusted" /\ redirects = 0 /\ asked = {}
  /\ assets = <<>> /\ found = "none" /\ kept = {} /\ lines = <<>>

----------------------------------------------------------------------------
Ask(what, where) ==
  /\ at' = what
  /\ url' = where /\ redirects' = 0 /\ asked' = asked \cup {where}

(* httpProxyFunc: no function at all is no proxy. *)
Route == IF settings.proxy = "http" THEN "proxy" ELSE "direct"

(* The options, the client over again, and the first request. *)
NewChecker ==
  /\ at = "new"
  /\ client' = [kind |-> "default", route |-> Route]
  /\ Ask("metadata", IF official THEN "trusted" ELSE "foreign")
  /\ UNCHANGED <<official, settings, assets, found, kept, lines>>

(* Connection errors, codes other than 2xx, the timeout of the request. *)
TimesOut_NotBinary == at \in Requesting \ {"binary"}
TimesOut == at \in Requesting

RequestFails ==
  /\ TimesOut
  /\ at' = "request failed"
  /\ UNCHANGED <<config, request, assets, found, kept, lines>>

MayFollow_Any(where) == where # "invalid"
MayFollow(where) == where = "trusted"

Redirect(where) ==
  /\ at \in Requesting /\ redirects < MaxRedirects
  /\ IF MayFollow(where)
     THEN /\ url' = where /\ redirects' = redirects + 1 /\ asked' = asked \cup {where}
          /\ UNCHANGED at
     ELSE at' = "request failed" /\ UNCHANGED request
  /\ UNCHANGED <<config, assets, found, kept, lines>>

(* What is read of a body: one byte more than allowed shows that it is too *)
(* long.                                                                   *)
ReadOf_Limit(length) == IF length > Limit THEN Limit ELSE length
ReadOf(length) == IF length > Limit THEN Limit + 1 ELSE length

(* The length is declared, or -1. *)
Receive(length, declared) ==
  /\ at \in Requesting
  /\ IF declared > Limit \/ ReadOf(length) > Limit
     THEN at' = "request failed" /\ UNCHANGED kept
     ELSE /\ kept' = kept \cup {[read |-> ReadOf(length), length |-> length]}
          /\ \/ at = "metadata" /\ at' = "decode"
             \/ at = "checksums" /\ at' = "lines"
             \/ at = "binary" /\ at' \in {"verified", "bad binary"}
  /\ UNCHANGED <<config, request, assets, found, lines>>

Acceptable(where) == IF official THEN where = "trusted" ELSE where # "invalid"

(* JSON, draft and prerelease, tag, page and date of the release. *)
Decode(wellFormed, page) ==
  /\ at = "decode"
  /\ at' = IF wellFormed /\ Acceptable(page) THEN "assets" ELSE "bad release"
  /\ UNCHANGED <<config, request, assets, found, kept, lines>>

IsDuplicate(name) == \E i \in DOMAIN assets : assets[i].name = name

NextAsset(a) ==
  /\ at = "assets" /\ Len(assets) < MaxAssets
  /\ IF a.name = "" \/ IsDuplicate(a.name) \/ ~Acceptable(a.url)
     THEN at' = "bad release" /\ UNCHANGED assets
     ELSE assets' = Append(assets, a) /\ UNCHANGED at
  /\ UNCHANGED <<config, request, found, kept, lines>>

Has(name) == \E i \in DOMAIN assets : assets[i].name = name
UrlOf(name) == (CHOOSE a \in {assets[i] : i \in DOMAIN assets} : a.name = name).url

(* autoStage needs both assets before it asks for one. *)
AssetsEnd ==
  /\ at = "assets"
  /\ IF Has("checksums.txt") /\ Has("binary")
     THEN Ask("checksums", UrlOf("checksums.txt"))
     ELSE at' = "bad release" /\ UNCHANGED request
  /\ UNCHANGED <<config, assets, found, kept, lines>>

IsRefused_LastWins(l) ==
  \/ l.kind = "malformed"
  \/ l.kind = "entry" /\ l.name = "binary" /\ l.digest = "none"
IsRefused(l) ==
  \/ l.kind = "malformed"
  \/ l.kind = "entry" /\ l.name = "binary" /\ (found # "none" \/ l.digest = "none")

(* ParseChecksum, one line. *)
ReadLine(l) ==
  /\ at = "lines" /\ Len(lines) < MaxLines
  /\ lines' = Append(lines, l)
  /\ at' = IF IsRefused(l) THEN "bad checksums" ELSE at
  /\ found' = IF l.kind = "entry" /\ l.name = "binary" /\ ~IsRefused(l) THEN l.digest ELSE found
  /\ UNCHANGED <<config, request, assets, kept>>

LinesEnd ==
  /\ at = "lines"
  /\ IF found # "none" THEN Ask("binary", UrlOf("binary")) ELSE at' = "bad checksums" /\ UNCHANGED request
  /\ UNCHANGED <<config, assets, found, kept, lines>>

(* A body that was read is worked through; a loop over it ends. *)
Program == NewChecker \/ AssetsEnd \/ LinesEnd \/ \E ok \in BOOLEAN, page \in URLs : Decode(ok, page)

ReleaseNext ==
  \/ Program \/ RequestFails
  \/ \E where \in URLs : Redirect(where)
  \/ \E length \in 0..Limit + 2 : \E declared \in {-1, length} : Receive(length, declared)
  \/ \E a \in Asset : NextAsset(a)
  \/ \E l \in Lines : ReadLine(l)

(* Every request has a timeout. *)
ReleaseSpec == ReleaseInit /\ [][ReleaseNext]_releaseVars /\ WF_releaseVars(Program) /\ WF_releaseVars(RequestFails)

----------------------------------------------------------------------------
(* The official updater talks to nobody but GitHub, through every redirect *)
(* and every URL that a release names.                                     *)
TrustedOnly == official => asked \subseteq {"trusted"}

(* No body that is used was cut off at the limit. *)
BodiesAreWhole == \A b \in kept : b.read = b.length

(* The binary is asked for exactly when checksums.txt says one thing of    *)
(* it: no malformed line, and one line with its name and a digest.         *)
ChecksumIsExact ==
  LET about == {i \in DOMAIN lines : lines[i].kind = "entry" /\ lines[i].name = "binary"}
      clear == /\ Malformed \notin {lines[i] : i \in DOMAIN lines}
               /\ Cardinality(about) = 1
               /\ \A i \in about : lines[i].digest # "none"
  IN /\ at \in {"binary", "verified", "bad binary"} => clear /\ \A i \in about : lines[i].digest = found
     /\ at = "bad checksums" => ~clear

(* A fetch ends, whatever the servers do. *)
FetchEnds == <>(at \in Refused \cup {"verified"})

(* README: UPDATE_HTTP_PROXY "Inherits the shell environment ... when      *)
(* empty".                                                                 *)
EnvironmentIsInherited ==
  at # "new" /\ settings.proxy = "" /\ settings.env => client.route = "env"

(* checker.go: "WithHTTPClient injects the client used for all release     *)
(* requests".                                                              *)
InjectedClientIsUsed == at # "new" /\ settings.injected => client.kind = "injected"
=============================================================================
