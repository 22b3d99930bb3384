---------------------------- MODULE Update_proofs ----------------------------
(***************************************************************************)
(* The package update: how a release is fetched, and what is done with it. *)
(***************************************************************************)
EXTENDS Updater, Release, FiniteSetTheorems, TLAPS

(***************************************************************************)
(* The fetch of a release, for every limit, every number of redirects,     *)
(* assets and lines, and any set of digests: whom the official updater     *)
(* talks to, that bodies are whole, and that the checksum is the only one. *)
(***************************************************************************)

Histories ==
  /\ lines \in Seq(Lines)
  /\ \A b \in kept : b.read = b.length

(* The official updater holds no URL but GitHub's. *)
HeldAreTrusted ==
  official => /\ asked \subseteq {"trusted"}
              /\ \A i \in DOMAIN assets : assets[i].url = "trusted"

AboutBinary == {i \in DOMAIN lines : lines[i].kind = "entry" /\ lines[i].name = "binary"}

WellFormed == \A i \in DOMAIN lines : lines[i] # Malformed

OneDigest ==
  \E i \in AboutBinary : /\ AboutBinary = {i}
                         /\ lines[i].digest = found /\ found # "none"

Ambiguous ==
  \/ ~WellFormed
  \/ \E i \in AboutBinary : lines[i].digest = "none"
  \/ \E i, j \in AboutBinary : i # j
  \/ AboutBinary = {}

(* What has been read so far and what was made of it. *)
ReadSoFar ==
  /\ at \in {"new", "metadata", "decode", "assets", "checksums"} => lines = <<>> /\ found = "none"
  /\ at \in {"lines", "binary", "verified", "bad binary"} => WellFormed
  /\ at = "lines" => (IF found = "none" THEN AboutBinary = {} ELSE OneDigest)
  /\ at \in {"binary", "verified", "bad binary"} => OneDigest
  /\ at = "bad checksums" => Ambiguous

(* autoStage has looked for the binary before it asks for the checksums. *)
BinaryIsListed == at \in {"checksums", "lines"} => Has("binary")

ReleaseInv == ReleaseTypeOK /\ Histories /\ HeldAreTrusted /\ BinaryIsListed /\ ReadSoFar

----------------------------------------------------------------------------

LEMMA ElementOf ==
  ASSUME NEW S, NEW s \in Seq(S), NEW i \in DOMAIN s
  PROVE  s[i] \in S
OBVIOUS

LEMMA NothingIn ==
  ASSUME NEW S, NEW s \in Seq(S), s = <<>>
  PROVE  DOMAIN s = {}
<1>1. Len(s) = 0
  OBVIOUS
<1> QED BY <1>1

LEMMA AppendFacts ==
  ASSUME NEW S, NEW s \in Seq(S), NEW x \in S
  PROVE  /\ Append(s, x) \in Seq(S)
         /\ Len(Append(s, x)) = Len(s) + 1
         /\ DOMAIN Append(s, x) = DOMAIN s \cup {Len(s) + 1} /\ Len(s) + 1 \notin DOMAIN s
         /\ Append(s, x)[Len(s) + 1] = x
         /\ \A i \in DOMAIN s : Append(s, x)[i] = s[i]
OBVIOUS

LEMMA LineIs ==
  ASSUME NEW l \in Lines
  PROVE  /\ l.kind = "malformed" <=> l = Malformed
         /\ l.kind = "entry" => l.digest \in Digests \cup {"none"}
<1> USE DEF Blank, Malformed
<1>1. CASE l \in {Blank, Malformed}
  <2>1. CASE l = Blank
    BY <2>1, Blank.kind = "blank", Malformed.kind = "malformed"
  <2>2. CASE l = Malformed
    BY <2>2, Malformed.kind = "malformed"
  <2> QED BY <1>1, <2>1, <2>2
<1>2. CASE l \in [kind : {"entry"}, name : {"binary", "other"}, digest : Digests \cup {"none"}]
  <2>1. l.kind = "entry" /\ l.digest \in Digests \cup {"none"}
    BY <1>2
  <2> QED BY <2>1, Malformed.kind = "malformed"
<1> QED BY <1>1, <1>2 DEF Lines

(* The count in ChecksumIsExact says that there is exactly one line. *)
LEMMA CountIsOne ==
  ASSUME lines \in Seq(Lines)
  PROVE  Cardinality(AboutBinary) = 1 <=> \E i : AboutBinary = {i}
<1>1. IsFiniteSet(1..Len(lines))
  BY FS_Interval
<1>2. AboutBinary \subseteq 1..Len(lines)
  BY DEF AboutBinary
<1>3. IsFiniteSet(AboutBinary)
  BY <1>1, <1>2, FS_Subset
<1> QED BY <1>3, FS_Singleton

LEMMA ReadSoFarIsExact ==
  ASSUME ReleaseInv
  PROVE  ChecksumIsExact
<1> DEFINE clear == /\ Malformed \notin {lines[i] : i \in DOMAIN lines}
                    /\ Cardinality(AboutBinary) = 1
                    /\ \A i \in AboutBinary : lines[i].digest # "none"
<1>1. Cardinality(AboutBinary) = 1 <=> \E i : AboutBinary = {i}
  BY CountIsOne DEF ReleaseInv, Histories
<1>2. at \in {"binary", "verified", "bad binary"} =>
        clear /\ \A i \in AboutBinary : lines[i].digest = found
  BY <1>1 DEF ReleaseInv, ReadSoFar, WellFormed, OneDigest
<1>3. at = "bad checksums" => ~clear
  BY <1>1 DEF ReleaseInv, ReadSoFar, Ambiguous, WellFormed
<1> QED BY <1>2, <1>3 DEF ChecksumIsExact, AboutBinary

(* A name that the release has is the name of one of its assets. *)
LEMMA UrlOfAsset ==
  ASSUME ReleaseInv, NEW name, Has(name)
  PROVE  UrlOf(name) \in URLs /\ (official => UrlOf(name) = "trusted")
<1>1. PICK i \in DOMAIN assets : UrlOf(name) = assets[i].url
  BY DEF Has, UrlOf
<1>2. assets[i] \in Asset
  BY <1>1, ElementOf DEF ReleaseInv, ReleaseTypeOK
<1> QED BY <1>1, <1>2 DEF ReleaseInv, HeldAreTrusted, Asset

----------------------------------------------------------------------------
LEMMA ReleaseInitIsFine == ReleaseInit => ReleaseInv
<1> SUFFICES ASSUME ReleaseInit PROVE ReleaseInv
  OBVIOUS
<1> USE ReleaseAssumption
<1>1. ReleaseTypeOK
  BY DEF ReleaseInit, ReleaseTypeOK, URLs, Requesting
<1>2. Histories
  BY DEF ReleaseInit, Histories
<1>3. HeldAreTrusted
  BY DEF ReleaseInit, HeldAreTrusted
<1>4. ReadSoFar
  BY DEF ReleaseInit, ReadSoFar
<1> QED BY <1>1, <1>2, <1>3, <1>4 DEF ReleaseInv, ReleaseInit, BinaryIsListed

(* A step to another place that neither reads a line nor an asset. *)
LEMMA RequestStep ==
  ASSUME ReleaseInv, NEW where \in URLs, NEW what,
         official => where = "trusted",
         at' = what, url' = where, redirects' \in 0..MaxRedirects,
         asked' = asked \cup {where},
         client' \in [kind : {"default", "injected"}, route : {"direct", "proxy", "env"}],
         UNCHANGED <<official, settings, assets, found, kept, lines>>,
         \/ at \in {"new", "metadata"} /\ what = "metadata"
         \/ at = "assets" /\ Has("binary") /\ what = "checksums"
         \/ at = "checksums" /\ what = "checksums"
         \/ at = "lines" /\ found # "none" /\ what = "binary"
         \/ at = "binary" /\ what = "binary"
  PROVE  ReleaseInv'
<1>1. ReleaseTypeOK'
  BY DEF ReleaseInv, ReleaseTypeOK, Requesting
<1>2. Histories'
  BY DEF ReleaseInv, Histories
<1>3. HeldAreTrusted'
  BY DEF ReleaseInv, HeldAreTrusted
<1>4. AboutBinary' = AboutBinary /\ WellFormed' = WellFormed /\ OneDigest' = OneDigest
  BY DEF AboutBinary, WellFormed, OneDigest
<1>5. ReadSoFar'
  BY <1>4 DEF ReleaseInv, ReadSoFar
<1>6. BinaryIsListed'
  BY DEF ReleaseInv, BinaryIsListed, Has
<1> QED BY <1>1, <1>2, <1>3, <1>5, <1>6 DEF ReleaseInv

(* Only the place changes. *)
LEMMA MoveStep ==
  ASSUME ReleaseInv, NEW what, at' = what,
         UNCHANGED <<config, request, assets, found, lines>>,
         \A b \in kept' : b.read = b.length,
         \/ what \in {"request failed", "bad release"}
         \/ at = "metadata" /\ what = "decode"
         \/ at = "decode" /\ what = "assets"
         \/ at = "checksums" /\ what = "lines"
         \/ at = "binary" /\ what \in {"verified", "bad binary"}
         \/ at = "lines" /\ found = "none" /\ what = "bad checksums"
  PROVE  ReleaseInv'
<1>1. ReleaseTypeOK'
  BY DEF ReleaseInv, ReleaseTypeOK, config, request, Refused
<1>2. Histories'
  BY DEF ReleaseInv, Histories
<1>3. HeldAreTrusted'
  BY DEF ReleaseInv, HeldAreTrusted, config, request
<1>4. AboutBinary' = AboutBinary /\ WellFormed' = WellFormed /\ OneDigest' = OneDigest
  BY DEF AboutBinary, WellFormed, OneDigest
<1>5. lines = <<>> => WellFormed /\ AboutBinary = {}
  BY NothingIn DEF ReleaseInv, Histories, WellFormed, AboutBinary
<1>6. ReadSoFar'
  BY <1>4, <1>5 DEF ReleaseInv, ReadSoFar, Ambiguous, AboutBinary
<1>7. BinaryIsListed'
  BY DEF ReleaseInv, BinaryIsListed, Has
<1> QED BY <1>1, <1>2, <1>3, <1>6, <1>7 DEF ReleaseInv

LEMMA ReadLineStep ==
  ASSUME ReleaseInv, NEW l \in Lines, ReadLine(l)
  PROVE  ReleaseInv'
<1> USE ReleaseAssumption
<1> DEFINE n == Len(lines) + 1
<1>0. lines \in Seq(Lines) /\ lines' = Append(lines, l) /\ Len(lines) < MaxLines
  BY DEF ReleaseInv, Histories, ReadLine
<1>1. /\ lines \in Seq(Lines) /\ lines' \in Seq(Lines)
      /\ DOMAIN lines' = DOMAIN lines \cup {n} /\ n \notin DOMAIN lines
      /\ lines'[n] = l /\ \A i \in DOMAIN lines : lines'[i] = lines[i]
      /\ Len(lines') = n
  BY <1>0, AppendFacts
<1>2. ReleaseTypeOK'
  <2>1. n <= MaxLines
    BY <1>0
  <2>2. found' \in Digests \cup {"none"} /\ at' \in {"lines", "bad checksums"}
    BY LineIs DEF ReleaseInv, ReleaseTypeOK, ReadLine
  <2> QED BY <1>1, <2>1, <2>2 DEF ReleaseInv, ReleaseTypeOK, ReadLine, config, request, Refused
<1>3. Histories'
  BY <1>1 DEF ReleaseInv, Histories, ReadLine
<1>4. HeldAreTrusted' /\ BinaryIsListed'
  BY DEF ReleaseInv, HeldAreTrusted, BinaryIsListed, Has, ReadLine, config, request
<1> HIDE DEF n
<1>5. AboutBinary' = IF l.kind = "entry" /\ l.name = "binary" THEN AboutBinary \cup {n} ELSE AboutBinary
  BY <1>1 DEF AboutBinary
<1>6. WellFormed' <=> WellFormed /\ l # Malformed
  BY <1>1 DEF WellFormed
<1>7. at = "lines" /\ WellFormed /\ (IF found = "none" THEN AboutBinary = {} ELSE OneDigest)
  BY DEF ReleaseInv, ReadSoFar, ReadLine
<1>8. l.kind = "malformed" <=> l = Malformed
  BY LineIs
<1>9. CASE l.kind = "malformed"
  <2>1. at' = "bad checksums" /\ ~WellFormed'
    BY <1>6, <1>8, <1>9 DEF ReadLine, IsRefused
  <2>2. ReadSoFar'
    BY <2>1 DEF ReadSoFar, Ambiguous
  <2> QED BY <1>2, <1>3, <1>4, <2>2 DEF ReleaseInv
<1>10. CASE l.kind # "malformed" /\ ~(l.kind = "entry" /\ l.name = "binary")
  <2>1. at' = "lines" /\ found' = found /\ AboutBinary' = AboutBinary /\ WellFormed'
    BY <1>5, <1>6, <1>7, <1>8, <1>10 DEF ReadLine, IsRefused
  <2>2. OneDigest => OneDigest'
    BY <1>1, <2>1 DEF OneDigest, AboutBinary
  <2>3. ReadSoFar'
    BY <1>7, <2>1, <2>2 DEF ReadSoFar
  <2> QED BY <1>2, <1>3, <1>4, <2>3 DEF ReleaseInv
<1>11. CASE l.kind = "entry" /\ l.name = "binary"
  <2>1. AboutBinary' = AboutBinary \cup {n} /\ n \notin AboutBinary /\ WellFormed'
    BY <1>1, <1>5, <1>6, <1>7, <1>8, <1>11 DEF AboutBinary
  <2>2. CASE l.digest = "none"
    <3>1. at' = "bad checksums"
      BY <1>11, <2>2 DEF ReadLine, IsRefused
    <3>2. n \in AboutBinary' /\ lines'[n].digest = "none"
      BY <1>1, <2>1, <2>2
    <3>3. ReadSoFar'
      BY <3>1, <3>2 DEF ReadSoFar, Ambiguous
    <3> QED BY <1>2, <1>3, <1>4, <3>3 DEF ReleaseInv
  <2>3. CASE l.digest # "none" /\ found # "none"
    <3>1. at' = "bad checksums"
      BY <1>11, <2>3 DEF ReadLine, IsRefused
    <3>2. PICK i \in AboutBinary : TRUE
      BY <1>7, <2>3 DEF OneDigest
    <3>3. i \in AboutBinary' /\ n \in AboutBinary' /\ i # n
      BY <2>1, <3>2
    <3>4. ReadSoFar'
      BY <3>1, <3>3 DEF ReadSoFar, Ambiguous
    <3> QED BY <1>2, <1>3, <1>4, <3>4 DEF ReleaseInv
  <2>4. CASE l.digest # "none" /\ found = "none"
    <3>1. at' = "lines" /\ found' = l.digest /\ AboutBinary' = {n}
      BY <1>7, <1>11, <2>1, <2>4 DEF ReadLine, IsRefused
    <3>2. OneDigest'
      BY <1>1, <2>4, <3>1 DEF OneDigest
    <3>3. ReadSoFar'
      BY <2>1, <2>4, <3>1, <3>2 DEF ReadSoFar
    <3> QED BY <1>2, <1>3, <1>4, <3>3 DEF ReleaseInv
  <2> QED BY <2>2, <2>3, <2>4
<1> QED BY <1>9, <1>10, <1>11

LEMMA NextAssetStep ==
  ASSUME ReleaseInv, NEW a \in Asset, NextAsset(a)
  PROVE  ReleaseInv'
<1> USE ReleaseAssumption
<1>1. CASE at' = "bad release" /\ UNCHANGED assets
  BY <1>1, MoveStep DEF NextAsset, ReleaseInv, Histories
<1>2. CASE ~(at' = "bad release" /\ UNCHANGED assets)
  <2> DEFINE n == Len(assets) + 1
  <2>1. /\ ~IsDuplicate(a.name) /\ Acceptable(a.url)
        /\ assets' = Append(assets, a) /\ at = "assets" /\ at' = at /\ Len(assets) < MaxAssets
        /\ UNCHANGED <<config, request, found, kept, lines>>
    BY <1>2 DEF NextAsset
  <2>2. /\ assets' \in Seq(Asset) /\ Len(assets') = n /\ n <= MaxAssets
        /\ DOMAIN assets' = DOMAIN assets \cup {n} /\ n \notin DOMAIN assets
        /\ assets'[n] = a /\ \A i \in DOMAIN assets : assets'[i] = assets[i]
    BY <2>1 DEF ReleaseInv, ReleaseTypeOK
  <2> HIDE DEF n
  <2>3. \A i, j \in DOMAIN assets' : assets'[i].name = assets'[j].name => i = j
    BY <2>1, <2>2 DEF ReleaseInv, ReleaseTypeOK, IsDuplicate
  <2>4. ReleaseTypeOK'
    BY <2>1, <2>2, <2>3 DEF ReleaseInv, ReleaseTypeOK, config, request
  <2>5. HeldAreTrusted'
    BY <2>1, <2>2 DEF ReleaseInv, HeldAreTrusted, Acceptable, config, request
  <2>6. AboutBinary' = AboutBinary /\ WellFormed' = WellFormed /\ OneDigest' = OneDigest
    BY <2>1 DEF AboutBinary, WellFormed, OneDigest
  <2>7. Histories' /\ ReadSoFar'
    BY <2>1, <2>6 DEF ReleaseInv, Histories, ReadSoFar
  <2> QED BY <2>1, <2>4, <2>5, <2>7 DEF ReleaseInv, BinaryIsListed
<1> QED BY <1>1, <1>2

LEMMA NextIsFine == ReleaseInv /\ [ReleaseNext]_releaseVars => ReleaseInv'
<1> SUFFICES ASSUME ReleaseInv, [ReleaseNext]_releaseVars PROVE ReleaseInv'
  OBVIOUS
<1> USE ReleaseAssumption
<1>1. CASE NewChecker
  <2> DEFINE where == IF official THEN "trusted" ELSE "foreign"
  <2>1. client' \in [kind : {"default", "injected"}, route : {"direct", "proxy", "env"}]
    BY <1>1 DEF NewChecker, Route
  <2>2. where \in URLs /\ 0 \in 0..MaxRedirects /\ (official => where = "trusted")
    BY DEF URLs
  <2>3. /\ at = "new" /\ at' = "metadata" /\ url' = where /\ redirects' = 0
        /\ asked' = asked \cup {where}
        /\ UNCHANGED <<official, settings, assets, found, kept, lines>>
    BY <1>1 DEF NewChecker, Ask
  <2> HIDE DEF where
  <2> QED BY <2>1, <2>2, <2>3, RequestStep
<1>2. CASE RequestFails
  BY <1>2, MoveStep DEF RequestFails, ReleaseInv, Histories
<1>3. ASSUME NEW where \in URLs, Redirect(where) PROVE ReleaseInv'
  <2>1. CASE MayFollow(where)
    <3>1. /\ at \in Requesting /\ at' = at /\ url' = where /\ redirects' = redirects + 1
          /\ redirects < MaxRedirects /\ asked' = asked \cup {where}
          /\ UNCHANGED <<official, settings, client, assets, found, kept, lines>>
      BY <1>3, <2>1 DEF Redirect, config
    <3>2. redirects' \in 0..MaxRedirects
      BY <3>1 DEF ReleaseInv, ReleaseTypeOK
    <3>3. where = "trusted"
      BY <2>1 DEF MayFollow
    <3>4. client' \in [kind : {"default", "injected"}, route : {"direct", "proxy", "env"}]
      BY <3>1 DEF ReleaseInv, ReleaseTypeOK
    <3> QED BY <3>1, <3>2, <3>3, <3>4, RequestStep DEF Requesting
  <2>2. CASE ~MayFollow(where)
    BY <1>3, <2>2, MoveStep DEF Redirect, ReleaseInv, Histories
  <2> QED BY <2>1, <2>2
<1>4. ASSUME NEW length \in 0..Limit + 2, NEW declared \in {-1, length}, Receive(length, declared)
      PROVE  ReleaseInv'
  <2>1. \A b \in kept : b.read = b.length
    BY DEF ReleaseInv, Histories
  <2>2. CASE declared > Limit \/ ReadOf(length) > Limit
    <3>1. at' = "request failed" /\ kept' = kept /\ UNCHANGED <<config, request, assets, found, lines>>
      BY <1>4, <2>2 DEF Receive
    <3> QED BY <2>1, <3>1, MoveStep
  <2>3. CASE ~(declared > Limit \/ ReadOf(length) > Limit)
    <3>1. ReadOf(length) = length
      BY <2>3 DEF ReadOf
    <3>2. kept' = kept \cup {[read |-> ReadOf(length), length |-> length]}
      BY <1>4, <2>3 DEF Receive
    <3>3. \A b \in kept' : b.read = b.length
      BY <2>1, <3>1, <3>2
    <3>4. /\ UNCHANGED <<config, request, assets, found, lines>>
          /\ \/ at = "metadata" /\ at' = "decode"
             \/ at = "checksums" /\ at' = "lines"
             \/ at = "binary" /\ at' \in {"verified", "bad binary"}
      BY <1>4, <2>3 DEF Receive
    <3> QED BY <3>3, <3>4, MoveStep
  <2> QED BY <2>2, <2>3
<1>5. ASSUME NEW ok \in BOOLEAN, NEW page \in URLs, Decode(ok, page) PROVE ReleaseInv'
  BY <1>5, MoveStep DEF Decode, ReleaseInv, Histories
<1>6. ASSUME NEW a \in Asset, NextAsset(a) PROVE ReleaseInv'
  BY <1>6, NextAssetStep
<1>7. CASE AssetsEnd
  <2>1. CASE Has("checksums.txt") /\ Has("binary")
    <3>1. UrlOf("checksums.txt") \in URLs /\ (official => UrlOf("checksums.txt") = "trusted")
      BY <2>1, UrlOfAsset
    <3>3. /\ at = "assets" /\ at' = "checksums" /\ url' = UrlOf("checksums.txt") /\ redirects' = 0
          /\ asked' = asked \cup {UrlOf("checksums.txt")}
          /\ UNCHANGED <<official, settings, client, assets, found, kept, lines>>
      BY <1>7, <2>1 DEF AssetsEnd, Ask, config
    <3>4. client' \in [kind : {"default", "injected"}, route : {"direct", "proxy", "env"}]
      BY <3>3 DEF ReleaseInv, ReleaseTypeOK
    <3>5. redirects' \in 0..MaxRedirects
      BY <3>3
    <3> QED BY <2>1, <3>1, <3>3, <3>4, <3>5, RequestStep
  <2>2. CASE ~(Has("checksums.txt") /\ Has("binary"))
    BY <1>7, <2>2, MoveStep DEF AssetsEnd, ReleaseInv, Histories
  <2> QED BY <2>1, <2>2
<1>8. ASSUME NEW l \in Lines, ReadLine(l) PROVE ReleaseInv'
  BY <1>8, ReadLineStep
<1>9. CASE LinesEnd
  <2>1. CASE found # "none"
    <3>1. UrlOf("binary") \in URLs /\ (official => UrlOf("binary") = "trusted")
      BY <1>9, UrlOfAsset DEF LinesEnd, ReleaseInv, BinaryIsListed
    <3>3. /\ at = "lines" /\ at' = "binary" /\ url' = UrlOf("binary") /\ redirects' = 0
          /\ asked' = asked \cup {UrlOf("binary")}
          /\ UNCHANGED <<official, settings, client, assets, found, kept, lines>>
      BY <1>9, <2>1 DEF LinesEnd, Ask, config
    <3>4. client' \in [kind : {"default", "injected"}, route : {"direct", "proxy", "env"}]
      BY <3>3 DEF ReleaseInv, ReleaseTypeOK
    <3>5. redirects' \in 0..MaxRedirects
      BY <3>3
    <3> QED BY <2>1, <3>1, <3>3, <3>4, <3>5, RequestStep
  <2>2. CASE found = "none"
    BY <1>9, <2>2, MoveStep DEF LinesEnd, ReleaseInv, Histories
  <2> QED BY <2>1, <2>2
<1>10. CASE UNCHANGED releaseVars
  <2>1. AboutBinary' = AboutBinary /\ WellFormed' = WellFormed /\ OneDigest' = OneDigest
        /\ Ambiguous' = Ambiguous
    BY <1>10 DEF AboutBinary, WellFormed, OneDigest, Ambiguous, releaseVars
  <2> QED BY <1>10, <2>1 DEF ReleaseInv, ReleaseTypeOK, Histories, HeldAreTrusted, BinaryIsListed, Has, ReadSoFar, releaseVars, config, request
<1> QED BY <1>1, <1>2, <1>3, <1>4, <1>5, <1>6, <1>7, <1>8, <1>9, <1>10 DEF ReleaseNext, Program

----------------------------------------------------------------------------
LEMMA Invariance == ReleaseSpec => []ReleaseInv
BY ReleaseInitIsFine, NextIsFine, PTL DEF ReleaseSpec

(* No name twice among the assets, no URL or redirect beyond its bounds. *)
THEOREM ReleaseTypeCorrect == ReleaseSpec => []ReleaseTypeOK
BY Invariance, PTL DEF ReleaseInv

(* The official updater asks GitHub only: validateTrustedURL on the page,  *)
(* on every asset and on every redirect is enough, for any number of them. *)
THEOREM OfficialTrustsGitHubOnly == ReleaseSpec => []TrustedOnly
<1>1. ReleaseInv => TrustedOnly
  BY DEF ReleaseInv, HeldAreTrusted, TrustedOnly
<1> QED BY Invariance, <1>1, PTL

(* One byte beyond the limit is enough to tell a body that was cut off,    *)
(* whatever the limit and the length that was declared.                    *)
THEOREM NoBodyIsCut == ReleaseSpec => []BodiesAreWhole
<1>1. ReleaseInv => BodiesAreWhole
  BY DEF ReleaseInv, Histories, BodiesAreWhole
<1> QED BY Invariance, <1>1, PTL

(* ParseChecksum and autoStage ask for the binary exactly when one line    *)
(* names it, whatever the number of lines and their order.                 *)
THEOREM OneChecksum == ReleaseSpec => []ChecksumIsExact
BY Invariance, ReadSoFarIsExact, PTL

----------------------------------------------------------------------------
(***************************************************************************)
(* The updater, for any number of versions, files, backups, kills and      *)
(* power losses: the executable stays complete, the way back stays open,   *)
(* and the installed version only goes up.                                 *)
(***************************************************************************)

Writing  == {"download", "verify", "sync", "validate", "backup", "rename"}
Renamed  == {"dirsync", "staged"}
HasFile  == Writing \cup Renamed

(* A file that may be installed, and one that a directory has installed or *)
(* keeps as a backup.                                                      *)
Good(i) == i <= made /\ file[i].whole /\ file[i].synced
HasIn(d, i) == i # NoFile /\ (d.exe = i \/ \E n \in Suffixes : d.old[n] = i)

(* Whatever a power loss leaves behind, executable and backups are good:   *)
(* any of them may be installed by a later restore.                        *)
AllAreGood == \A d \in durable \cup {dir}, i \in Files : HasIn(d, i) => Good(i)

(* The file that is being staged is new: no directory has it before the    *)
(* rename, and it is good by then.                                         *)
StagedIsNew ==
  /\ loop \notin HasFile => staged = NoFile
  /\ loop \in HasFile => staged \in Files /\ staged <= made /\ VersionOf(staged) = target
  /\ up /\ loop \in Writing => \A d \in durable \cup {dir} : ~HasIn(d, staged)
  /\ up /\ loop \in {"sync", "validate", "backup", "rename"} => file[staged].whole
  /\ up /\ loop \in {"validate", "backup", "rename"} => file[staged].synced
  /\ up /\ loop \in Renamed => staged \notin dir.tmp
  /\ loop \in {"rename"} \cup Renamed => suffix \in Suffixes

(* Until the rename the executable is the running program, and after it    *)
(* the backup is.                                                          *)
ImageIsKept ==
  /\ up => running <= made
  /\ up /\ state # "restart_required" /\ loop \notin Renamed => dir.exe = running
  /\ up /\ loop \in {"rename"} \cup Renamed => dir.old[suffix] = running
  /\ up /\ loop \in Renamed => dir.exe = staged
  /\ up /\ loop \in {"inspect", "create"} \cup HasFile => target > Current
  /\ main = "retry" => dir.exe = running

(* The loop rests while a restart is required, and main only gets further  *)
(* than its shutdown when it has ended.                                    *)
Control ==
  /\ state = "restart_required" => loop \in {"select", "over"}
  /\ main \in {"restarting", "exec", "restore", "retry"} => state = "restart_required"
  /\ main \in {"exec", "restore", "retry"} => loop = "over"
  /\ main = "gone" <=> ~up
  /\ faults = 0 /\ ~up => loop = "over"

IInv == /\ TypeOK /\ AllAreGood /\ StagedIsNew /\ ImageIsKept /\ Control
        /\ RollbackIsReady /\ NoStrayFile

USE DEF fs, status, locals, process, At, Goto, NoFile, NoSuffix, VersionOf, Current,
        Writing, Renamed, HasFile

Contents == [version : Versions, whole : BOOLEAN, synced : BOOLEAN]

----------------------------------------------------------------------------
(* Files and directories *)

(* Writing one file leaves the others alone. *)
LEMMA OneFile ==
  ASSUME TypeOK, NEW i \in Files, NEW c \in Contents, file' = [file EXCEPT ![i] = c]
  PROVE  /\ file' \in [Files -> Contents] /\ file'[i] = c
         /\ \A j \in Files : j # i => file'[j] = file[j]
BY DEF TypeOK, Contents

(* A directory that names good files only may be the next one. *)
LEMMA SetDirIsFine ==
  ASSUME TypeOK, AllAreGood, NEW d \in Directory, SetDir(d),
         \A i \in Files : HasIn(d, i) => Good(i)',
         \A i \in Files : Good(i) => Good(i)'
  PROVE  /\ dir' \in Directory /\ durable' \subseteq Directory /\ durable' # {}
         /\ AllAreGood'
<1>1. dir' = d /\ durable' = durable \cup {d}
  BY DEF SetDir
<1>2. dir' \in Directory /\ durable' \subseteq Directory /\ durable' # {}
  BY <1>1 DEF TypeOK
<1>3. AllAreGood'
  BY <1>1 DEF AllAreGood, HasIn
<1> QED BY <1>2, <1>3

(* The executable is one of the files. *)
LEMMA ExeIsGood ==
  ASSUME IInv
  PROVE  /\ dir.exe \in Files /\ Good(dir.exe)
         /\ \A n \in Suffixes : dir.old[n] # NoFile => dir.old[n] \in Files /\ Good(dir.old[n])
BY DEF IInv, TypeOK, Directory, AllAreGood, HasIn, Files

LEMMA GoodIsKept ==
  ASSUME UNCHANGED <<file, made>>
  PROVE  \A i \in Files : Good(i) => Good(i)'
BY DEF Good

LEMMA InitIsFine == Init => IInv
<1> SUFFICES ASSUME Init PROVE IInv
  OBVIOUS
<1> USE BoundsAssumption, VersionsAssumption
<1>1. PICK v \in {0, 1} :
        file = [i \in Files |-> [version |-> v, whole |-> TRUE, synced |-> TRUE]]
  BY DEF Init
<1>2. 1 \in Files /\ 0 \in Suffixes /\ v \in Versions
  BY DEF Files, Suffixes, Versions, Init
<1>3. /\ dir \in Directory /\ dir.exe = 1 /\ dir.tmp = {}
      /\ \A n \in Suffixes : dir.old[n] \in {NoFile, 1}
  BY <1>2 DEF Init, Directory
<1>4. TypeOK
  <2>1. file \in [Files -> Contents]
    BY <1>1, <1>2 DEF Contents
  <2>2. durable \subseteq Directory /\ durable # {}
    BY <1>3 DEF Init
  <2>3. faults \in 0..MaxFaults /\ latest \in Versions /\ target \in Versions
    BY DEF Init, Versions
  <2> QED BY <1>2, <1>3, <2>1, <2>2, <2>3 DEF Init, TypeOK, Contents, States
<1>5. AllAreGood
  BY <1>1, <1>2, <1>3 DEF Init, AllAreGood, HasIn, Good, Files
<1>6. StagedIsNew /\ ImageIsKept /\ Control /\ RollbackIsReady /\ NoStrayFile
  BY <1>3 DEF Init, StagedIsNew, ImageIsKept, Control, RollbackIsReady, NoStrayFile
<1> QED BY <1>4, <1>5, <1>6 DEF IInv

----------------------------------------------------------------------------
(* Steps that leave the file system alone. *)

LEMMA CheckKeeps ==
  ASSUME IInv, Publish \/ CheckStep \/ LoopStop \/ StageBegin
  PROVE  IInv'
<1> USE BoundsAssumption, VersionsAssumption
    DEF IInv, TypeOK, AllAreGood, Good, StagedIsNew, ImageIsKept, Control, RollbackIsReady,
        NoStrayFile
<1>1. CASE Publish
  BY <1>1 DEF Publish
<1>2. CASE LoopCheck
  BY <1>2 DEF LoopCheck, MayCheck, States
<1>3. CASE Check
  BY <1>3 DEF Check, Outcome
<1>4. CASE LoopChecked
  BY <1>4 DEF LoopChecked
<1>5. CASE LoopStop
  BY <1>5 DEF LoopStop
<1>6. CASE StageBegin
  BY <1>6 DEF StageBegin, Stages, States, StageSteps
<1> QED BY <1>1, <1>2, <1>3, <1>4, <1>5, <1>6 DEF CheckStep

LEMMA StagingKeeps ==
  ASSUME IInv, \/ StageRefresh \/ Inspect \/ Verify \/ Validate \/ Staged
               \/ RequestRestart \/ RequestExit
  PROVE  IInv'
<1> USE BoundsAssumption, VersionsAssumption
    DEF IInv, TypeOK, AllAreGood, Good, StagedIsNew, ImageIsKept, Control, RollbackIsReady,
        NoStrayFile
<1>1. CASE StageRefresh
  BY <1>1 DEF StageRefresh, Outdated, States, StageSteps
<1>2. CASE Inspect
  BY <1>2 DEF Inspect, StageSteps
<1>3. CASE Verify
  BY <1>3 DEF Verify, StageSteps
<1>4. CASE Validate
  BY <1>4 DEF Validate, StageSteps
<1>5. CASE Staged
  <2> USE <1>5 DEF Staged
  <2>1. TypeOK' /\ Control'
    BY DEF States, Versions, Suffixes, Files
  <2>2. AllAreGood' /\ StagedIsNew' /\ ImageIsKept'
    OBVIOUS
  <2>3. RollbackIsReady'
    BY DEF Versions, Files, Suffixes
  <2>4. NoStrayFile'
    OBVIOUS
  <2> QED BY <2>1, <2>2, <2>3, <2>4
<1>6. CASE RequestRestart
  BY <1>6 DEF RequestRestart
<1>7. CASE RequestExit
  BY <1>7 DEF RequestExit
<1> QED BY <1>1, <1>2, <1>3, <1>4, <1>5, <1>6, <1>7

LEMMA MainKeeps ==
  ASSUME IInv, UpdaterWaited \/ ExecFails \/ RestoreFails \/ Kill
  PROVE  IInv'
<1> USE DEF IInv, TypeOK, AllAreGood, Good, StagedIsNew, ImageIsKept, Control, RollbackIsReady,
        NoStrayFile
<1>1. CASE UpdaterWaited
  <2>1. CASE main = "restarting"
    BY <1>1, <2>1 DEF UpdaterWaited
  <2>2. CASE main = "exiting"
    BY <1>1, <2>2 DEF UpdaterWaited
  <2> QED BY <1>1, <2>1, <2>2 DEF UpdaterWaited
<1>2. CASE ExecFails
  <2>1. CASE main = "exec"
    BY <1>2, <2>1 DEF ExecFails
  <2>2. CASE main = "retry"
    BY <1>2, <2>2 DEF ExecFails
  <2> QED BY <1>2, <2>1, <2>2 DEF ExecFails
<1>3. CASE RestoreFails
  BY <1>3 DEF RestoreFails
<1>4. CASE Kill
  <2>1. faults' \in 0..MaxFaults /\ faults' # 0
    BY <1>4, BoundsAssumption DEF Kill
  <2> QED BY <1>4, <2>1 DEF Kill
<1> QED BY <1>1, <1>2, <1>3, <1>4

LEMMA BootKeeps ==
  ASSUME IInv, Exec \/ Boot
  PROVE  IInv'
<1>1. Boots(dir.exe) /\ UNCHANGED <<latest, fs, faults>> /\ dir.exe \in Files /\ Good(dir.exe)
  BY ExeIsGood DEF Exec, Boot
<1>2. TypeOK'
  <2>1. UNCHANGED <<latest, file, made, dir, durable, faults>>
    BY <1>1
  <2>2. /\ up' = TRUE /\ running' \in Files /\ main' = "serving" /\ canceled' = FALSE
        /\ state' = "checking" /\ backupPath' = NoSuffix /\ loop' = "begin"
        /\ target' \in Versions /\ staged' = NoFile /\ suffix' = NoSuffix
    BY <1>1, VersionsAssumption DEF Boots, Versions
  <2> QED BY <2>1, <2>2 DEF IInv, TypeOK, States
<1>3. AllAreGood'
  BY <1>1 DEF IInv, AllAreGood, Good
<1>4. StagedIsNew' /\ ImageIsKept' /\ Control' /\ RollbackIsReady'
  BY <1>1 DEF Boots, Good, StagedIsNew, ImageIsKept, Control, RollbackIsReady
<1>5. NoStrayFile'
  <2>1. loop \in {"begin", "over", "select"} => staged = NoFile
    BY DEF IInv, StagedIsNew
  <2>2. faults = 0 => loop = "over"
    BY DEF IInv, Control, Exec, Boot
  <2> QED BY <1>1, <2>1, <2>2 DEF IInv, NoStrayFile, Boots
<1> QED BY <1>2, <1>3, <1>4, <1>5 DEF IInv

----------------------------------------------------------------------------
(* Steps that write a file or the directory. *)

LEMMA StageErrorKeeps ==
  ASSUME IInv, StageError
  PROVE  IInv'
<1> USE DEF StageError, StageFails
<1>1. dir' \in {dir, TempRemoved} /\ durable' \in {durable, durable \cup {TempRemoved}}
  BY DEF SetDir
<1>2. TempRemoved \in Directory /\ TempRemoved.exe = dir.exe /\ TempRemoved.old = dir.old
      /\ TempRemoved.tmp = dir.tmp \ {staged}
  BY DEF TempRemoved, IInv, TypeOK, Directory
<1>3. \A i \in Files : HasIn(TempRemoved, i) => HasIn(dir, i)
  BY <1>2 DEF HasIn
<1>4. /\ dir' \in Directory /\ durable' \subseteq Directory /\ durable' # {}
      /\ AllAreGood'
  BY <1>1, <1>2, <1>3 DEF IInv, TypeOK, AllAreGood, Good
<1>5. TypeOK'
  BY <1>4, VersionsAssumption DEF IInv, TypeOK, States, Versions
<1>6. dir'.exe = dir.exe /\ dir'.old = dir.old /\ dir'.tmp \subseteq dir.tmp \ {staged}
  BY <1>2 DEF SetDir, IInv, TypeOK, Directory
<1>7. StagedIsNew' /\ NoStrayFile'
  BY <1>6 DEF IInv, StagedIsNew, NoStrayFile
<1>8. ImageIsKept' /\ Control' /\ RollbackIsReady'
  BY <1>6 DEF IInv, Control, ImageIsKept, RollbackIsReady
<1> QED BY <1>4, <1>5, <1>7, <1>8 DEF IInv

LEMMA CreateTempKeeps ==
  ASSUME IInv, CreateTemp
  PROVE  IInv'
<1> DEFINE new == made + 1
           d == [dir EXCEPT !.tmp = @ \cup {new}]
<1>1. /\ up /\ loop = "create" /\ loop' = "download"
      /\ made' = new /\ staged' = new /\ SetDir(d)
      /\ file' = [file EXCEPT ![new] = [version |-> target, whole |-> FALSE, synced |-> FALSE]]
      /\ UNCHANGED <<latest, process, status, target, suffix, faults>>
  BY DEF CreateTemp
<1>2. new \in Files /\ made \in Files /\ new # NoFile
  BY BoundsAssumption DEF CreateTemp, IInv, TypeOK, Files
<1>3. /\ file' \in [Files -> Contents] /\ file'[new].version = target
      /\ \A i \in Files : i <= made => file'[i] = file[i]
  <2>1. [version |-> target, whole |-> FALSE, synced |-> FALSE] \in Contents
    BY DEF IInv, TypeOK, Contents
  <2>2. \A i \in Files : i <= made => i # new
    BY <1>2 DEF Files
  <2>3. TypeOK
    BY DEF IInv
  <2> HIDE DEF new
  <2>4. /\ file' \in [Files -> Contents]
        /\ file'[new] = [version |-> target, whole |-> FALSE, synced |-> FALSE]
        /\ \A j \in Files : j # new => file'[j] = file[j]
    BY <1>1, <1>2, <2>1, <2>3, OneFile
  <2> QED BY <2>2, <2>4
<1>4. d \in Directory /\ d.exe = dir.exe /\ d.old = dir.old /\ d.tmp = dir.tmp \cup {new}
  BY <1>2 DEF IInv, TypeOK, Directory
<1>5. \A i \in Files : Good(i) => Good(i)'
  BY <1>1, <1>2, <1>3 DEF Good, Files
<1>6. \A i \in Files : HasIn(d, i) => Good(i)
  BY <1>4 DEF IInv, AllAreGood, HasIn
<1> HIDE DEF d
<1>7. dir' \in Directory /\ durable' \subseteq Directory /\ durable' # {} /\ AllAreGood'
  BY <1>1, <1>4, <1>5, <1>6, SetDirIsFine DEF IInv
<1>8. dir'.exe = dir.exe /\ dir'.old = dir.old /\ dir'.tmp = dir.tmp \cup {new}
  BY <1>1, <1>4 DEF SetDir
<1>9. TypeOK'
  BY <1>1, <1>2, <1>3, <1>7 DEF IInv, TypeOK, Contents, StageSteps
<1>10. StagedIsNew'
  <2>1. \A e \in durable' \cup {dir'} : ~HasIn(e, new)
    <3>1. \A e \in durable \cup {dir} : ~HasIn(e, new)
      BY <1>2 DEF IInv, AllAreGood, Good, Files
    <3>2. ~HasIn(d, new)
      BY <3>1, <1>4 DEF HasIn
    <3> QED BY <1>1, <3>1, <3>2 DEF SetDir
  <2> QED BY <1>1, <1>2, <1>3, <2>1 DEF StagedIsNew, Files
<1>11. VersionOf(running)' = VersionOf(running) /\ VersionOf(dir.exe)' = VersionOf(dir.exe)
  BY <1>1, <1>3, <1>8, ExeIsGood DEF IInv, TypeOK, ImageIsKept, Good
<1>12. ImageIsKept' /\ Control' /\ RollbackIsReady'
  <2>1. UNCHANGED <<up, running, main, canceled, state, backupPath, target, suffix, faults>>
    BY <1>1
  <2> QED BY <1>1, <1>2, <1>8, <1>11, <2>1
      DEF IInv, TypeOK, ImageIsKept, Control, RollbackIsReady, Files
<1>13. NoStrayFile'
  BY <1>1, <1>8 DEF IInv, TypeOK, Directory, Files, NoStrayFile, StagedIsNew
<1> QED BY <1>7, <1>9, <1>10, <1>12, <1>13 DEF IInv

LEMMA DownloadKeeps ==
  ASSUME IInv, Download \/ SyncFile
  PROVE  IInv'
<1>1. /\ up /\ staged \in Files /\ staged <= made /\ loop \in Writing
      /\ \A d \in durable \cup {dir} : ~HasIn(d, staged)
  BY DEF IInv, StagedIsNew, Download, SyncFile
<1>2. PICK c \in Contents : /\ file' = [file EXCEPT ![staged] = c]
                            /\ c.version = file[staged].version
                            /\ c.whole \in BOOLEAN
                            /\ loop = "sync" => c.whole = file[staged].whole /\ c.synced
  <2>1. file \in [Files -> Contents]
    BY DEF IInv, TypeOK, Contents
  <2>2. CASE Download
    <3>1. PICK whole \in BOOLEAN : file' = [file EXCEPT ![staged].whole = whole]
      BY <2>2 DEF Download
    <3> DEFINE c == [file[staged] EXCEPT !.whole = whole]
    <3>2. c \in Contents /\ c.version = file[staged].version /\ loop = "download"
      BY <1>1, <2>1, <2>2 DEF Contents, Download
    <3> QED BY <3>1, <3>2 DEF Contents
  <2>3. CASE SyncFile
    <3> DEFINE c == [file[staged] EXCEPT !.synced = TRUE]
    <3>1. file' = [file EXCEPT ![staged] = c]
      BY <2>3 DEF SyncFile, Synced
    <3>2. /\ c \in Contents /\ c.version = file[staged].version
          /\ c.whole = file[staged].whole /\ c.synced
      BY <1>1, <2>1 DEF Contents
    <3> QED BY <3>1, <3>2 DEF Contents
  <2> QED BY <2>2, <2>3
<1>3. /\ file' \in [Files -> Contents] /\ file'[staged] = c
      /\ \A i \in Files : i # staged => file'[i] = file[i]
  <2>1. TypeOK
    BY DEF IInv
  <2> QED BY <1>1, <1>2, <2>1, OneFile
<1>4. /\ UNCHANGED <<latest, made, dir, durable, process, status, locals, faults>>
      /\ \/ loop = "download" /\ loop' = "verify"
         \/ loop = "sync" /\ loop' = "validate"
  BY DEF Download, SyncFile
<1>5. TypeOK'
  BY <1>3, <1>4 DEF IInv, TypeOK, Contents, StageSteps
<1>6. AllAreGood'
  BY <1>1, <1>3, <1>4 DEF IInv, AllAreGood, Good, HasIn
<1>7. \A i \in Files : VersionOf(i)' = VersionOf(i)
  BY <1>2, <1>3
<1>8. StagedIsNew'
  BY <1>1, <1>2, <1>3, <1>4, <1>7 DEF IInv, StagedIsNew, HasIn
<1>9. ImageIsKept' /\ Control' /\ NoStrayFile'
  BY <1>4, <1>7 DEF IInv, TypeOK, ImageIsKept, Control, NoStrayFile
<1>10. RollbackIsReady'
  BY <1>1, <1>4 DEF IInv, Control, RollbackIsReady
<1> QED BY <1>5, <1>6, <1>8, <1>9, <1>10 DEF IInv

LEMMA LinkBackupKeeps ==
  ASSUME IInv, LinkBackup
  PROVE  IInv'
<1>1. PICK n \in Suffixes : /\ FirstFree(n)
                            /\ suffix' = n
                            /\ SetDir([dir EXCEPT !.old[n] = dir.exe])
  BY DEF LinkBackup
<1> DEFINE d == [dir EXCEPT !.old[n] = dir.exe]
<1>2. /\ up /\ loop = "backup" /\ loop' = "rename"
      /\ UNCHANGED <<latest, file, made, process, status, target, staged, faults>>
  BY DEF LinkBackup
<1>3. /\ d \in Directory /\ d.exe = dir.exe /\ d.tmp = dir.tmp
      /\ d.old[n] = dir.exe /\ \A m \in Suffixes : m # n => d.old[m] = dir.old[m]
  BY DEF IInv, TypeOK, Directory
<1>4. \A i \in Files : HasIn(d, i) => HasIn(dir, i)
  BY <1>3 DEF HasIn
<1>5. \A i \in Files : Good(i) => Good(i)'
  BY <1>2, GoodIsKept
<1>6. \A i \in Files : HasIn(d, i) => Good(i)
  BY <1>4 DEF IInv, AllAreGood
<1> HIDE DEF d
<1>7. dir' \in Directory /\ durable' \subseteq Directory /\ durable' # {} /\ AllAreGood'
  BY <1>1, <1>3, <1>5, <1>6, SetDirIsFine DEF IInv, d
<1>8. dir' = d /\ durable' = durable \cup {d}
  BY <1>1 DEF SetDir, d
<1>9. TypeOK'
  BY <1>1, <1>2, <1>7 DEF IInv, TypeOK, StageSteps
<1>10. StagedIsNew'
  <2>1. staged \in Files
    BY <1>2 DEF IInv, StagedIsNew
  <2>2. \A e \in durable' \cup {dir'} : ~HasIn(e, staged)
    BY <1>2, <1>4, <1>8, <2>1 DEF IInv, StagedIsNew
  <2> QED BY <1>1, <1>2, <2>2 DEF IInv, StagedIsNew
<1>11. ImageIsKept' /\ Control' /\ NoStrayFile'
  BY <1>1, <1>2, <1>3, <1>8 DEF IInv, ImageIsKept, Control, NoStrayFile
<1>12. RollbackIsReady'
  BY <1>2 DEF IInv, Control, RollbackIsReady
<1> QED BY <1>7, <1>9, <1>10, <1>11, <1>12 DEF IInv

LEMMA RenameKeeps ==
  ASSUME IInv, Rename
  PROVE  IInv'
<1>1. /\ up /\ loop = "rename" /\ loop' = "dirsync" /\ SetDir(Installed)
      /\ UNCHANGED <<latest, file, made, process, status, locals, faults>>
  BY DEF Rename
<1>2. staged \in Files /\ Good(staged)
  BY <1>1 DEF IInv, StagedIsNew, Good
<1>3. /\ Installed \in Directory /\ Installed.exe = staged
      /\ Installed.old = dir.old /\ Installed.tmp = dir.tmp \ {staged}
  BY <1>2 DEF Installed, IInv, TypeOK, Directory
<1>4. \A i \in Files : HasIn(Installed, i) => Good(i)
  BY <1>2, <1>3 DEF IInv, AllAreGood, HasIn
<1>5. \A i \in Files : Good(i) => Good(i)'
  BY <1>1, GoodIsKept
<1>6. dir' \in Directory /\ durable' \subseteq Directory /\ durable' # {} /\ AllAreGood'
  BY <1>1, <1>3, <1>4, <1>5, SetDirIsFine DEF IInv
<1>7. dir' = Installed
  BY <1>1 DEF SetDir
<1>8. TypeOK'
  BY <1>1, <1>6 DEF IInv, TypeOK, StageSteps
<1>9. StagedIsNew' /\ ImageIsKept' /\ Control' /\ NoStrayFile'
  BY <1>1, <1>3, <1>7 DEF IInv, StagedIsNew, ImageIsKept, Control, NoStrayFile
<1>10. RollbackIsReady'
  BY <1>1 DEF IInv, Control, RollbackIsReady
<1> QED BY <1>6, <1>8, <1>9, <1>10 DEF IInv

LEMMA RenameFailsKeeps ==
  ASSUME IInv, RenameFails
  PROVE  IInv'
<1>1. PICK b \in {NoFile, dir.old[suffix]} :
        SetDir([dir EXCEPT !.old[suffix] = b, !.tmp = @ \ {staged}])
  BY DEF RenameFails
<1> DEFINE d == [dir EXCEPT !.old[suffix] = b, !.tmp = @ \ {staged}]
<1>2. /\ up /\ loop = "rename" /\ loop' = "select" /\ state' = "error"
      /\ staged' = NoFile /\ suffix' = NoSuffix /\ target' = 0
      /\ UNCHANGED <<latest, file, made, process, backupPath, faults>>
  BY DEF RenameFails
<1>3. /\ d \in Directory /\ d.exe = dir.exe /\ d.tmp = dir.tmp \ {staged}
      /\ \A n \in Suffixes : d.old[n] \in {NoFile, dir.old[n]}
  <2>1. suffix \in Suffixes
    BY <1>2 DEF IInv, StagedIsNew
  <2> QED BY <2>1 DEF IInv, TypeOK, Directory
<1>4. \A i \in Files : HasIn(d, i) => Good(i)
  BY <1>3 DEF IInv, AllAreGood, HasIn, Files
<1>5. \A i \in Files : Good(i) => Good(i)'
  BY <1>2, GoodIsKept
<1> HIDE DEF d
<1>6. dir' \in Directory /\ durable' \subseteq Directory /\ durable' # {} /\ AllAreGood'
  BY <1>1, <1>3, <1>4, <1>5, SetDirIsFine DEF IInv, d
<1>7. dir' = d
  BY <1>1 DEF SetDir, d
<1>8. TypeOK'
  BY <1>2, <1>6, VersionsAssumption DEF IInv, TypeOK, States, Versions
<1>9. StagedIsNew' /\ ImageIsKept' /\ Control' /\ NoStrayFile'
  BY <1>2, <1>3, <1>7 DEF IInv, StagedIsNew, ImageIsKept, Control, NoStrayFile
<1>10. RollbackIsReady'
  BY <1>2 DEF RollbackIsReady
<1> QED BY <1>6, <1>8, <1>9, <1>10 DEF IInv

LEMMA SyncDirectoryKeeps ==
  ASSUME IInv, SyncDirectory
  PROVE  IInv'
<1>1. /\ up /\ loop = "dirsync" /\ loop' = "staged" /\ durable' \subseteq durable \cup {dir}
      /\ durable' # {}
      /\ UNCHANGED <<latest, file, made, dir, process, status, locals, faults>>
  BY DEF SyncDirectory, IInv, TypeOK
<1>2. TypeOK'
  BY <1>1 DEF IInv, TypeOK, StageSteps
<1>3. AllAreGood'
  BY <1>1 DEF IInv, AllAreGood, Good
<1>4. StagedIsNew' /\ ImageIsKept' /\ Control' /\ RollbackIsReady' /\ NoStrayFile'
  BY <1>1 DEF IInv, StagedIsNew, ImageIsKept, Control, RollbackIsReady, NoStrayFile
<1> QED BY <1>2, <1>3, <1>4 DEF IInv

LEMMA RestoreKeeps ==
  ASSUME IInv, Restore
  PROVE  IInv'
<1>1. /\ up /\ main = "restore" /\ main' = "retry" /\ state = "restart_required"
      /\ loop = "over" /\ staged = NoFile
      /\ backupPath # NoSuffix /\ dir.old[backupPath] # NoFile /\ SetDir(Restored)
      /\ UNCHANGED <<latest, file, made, up, running, canceled, status, loop, locals, faults>>
  BY DEF Restore, IInv, Control, StagedIsNew
<1>2. backupPath \in Suffixes /\ dir.old[backupPath] \in Files
  BY <1>1, ExeIsGood DEF IInv, TypeOK
<1>3. /\ Restored \in Directory /\ Restored.exe = dir.old[backupPath] /\ Restored.tmp = dir.tmp
      /\ \A n \in Suffixes : Restored.old[n] \in {NoFile, dir.old[n]}
  BY <1>2 DEF Restored, IInv, TypeOK, Directory
<1>4. \A i \in Files : HasIn(Restored, i) => Good(i)
  BY <1>2, <1>3 DEF IInv, AllAreGood, HasIn, Files
<1>5. \A i \in Files : Good(i) => Good(i)'
  BY <1>1, GoodIsKept
<1>6. dir' \in Directory /\ durable' \subseteq Directory /\ durable' # {} /\ AllAreGood'
  BY <1>1, <1>3, <1>4, <1>5, SetDirIsFine DEF IInv
<1>7. TypeOK'
  BY <1>1, <1>6 DEF IInv, TypeOK
<1>8. StagedIsNew' /\ Control' /\ RollbackIsReady'
  BY <1>1 DEF IInv, StagedIsNew, Control, RollbackIsReady
<1>9. dir'.exe = running
  BY <1>1, <1>3 DEF IInv, RollbackIsReady, SetDir
<1>10. ImageIsKept' /\ NoStrayFile'
  BY <1>1, <1>3, <1>9 DEF IInv, ImageIsKept, NoStrayFile, SetDir
<1> QED BY <1>6, <1>7, <1>8, <1>10 DEF IInv

LEMMA PowerLossKeeps ==
  ASSUME IInv, PowerLoss
  PROVE  IInv'
<1>1. /\ up' = FALSE /\ main' = "gone" /\ faults < MaxFaults /\ faults' = faults + 1
      /\ dir' \in durable /\ durable' = {dir'}
      /\ UNCHANGED <<latest, made, running, canceled, status, loop, locals>>
  BY DEF PowerLoss
<1>2. \A i \in Files : /\ file'[i] \in Contents /\ file'[i].version = file[i].version
                       /\ file'[i].whole = (file[i].whole /\ file[i].synced)
                       /\ file'[i].synced
  BY DEF PowerLoss, IInv, TypeOK, Contents
<1>3. file' \in [Files -> Contents]
  BY <1>2 DEF PowerLoss
<1>4. TypeOK'
  <2>1. faults' \in 0..MaxFaults
    <3>1. faults \in 0..MaxFaults
      BY DEF IInv, TypeOK
    <3> QED BY <1>1, <3>1, BoundsAssumption
  <2>2. dir' \in Directory /\ durable' \subseteq Directory /\ durable' # {}
    BY <1>1 DEF IInv, TypeOK
  <2> QED BY <1>1, <1>3, <2>1, <2>2 DEF IInv, TypeOK, Contents
<1>5. AllAreGood'
  BY <1>1, <1>2 DEF IInv, AllAreGood, Good
<1>6. StagedIsNew'
  BY <1>1, <1>2 DEF IInv, StagedIsNew
<1>7. ImageIsKept'
  BY <1>1, <1>2 DEF IInv, TypeOK, ImageIsKept
<1>8. faults' # 0
  BY <1>1 DEF IInv, TypeOK
<1>9. Control' /\ RollbackIsReady' /\ NoStrayFile'
  BY <1>1, <1>8 DEF IInv, Control, RollbackIsReady, NoStrayFile
<1> QED BY <1>4, <1>5, <1>6, <1>7, <1>9 DEF IInv

LEMMA NextKeepsIInv == IInv /\ [Next]_vars => IInv'
<1> SUFFICES ASSUME IInv, [Next]_vars PROVE IInv'
  OBVIOUS
<1>1. CASE Publish \/ CheckStep \/ LoopStop \/ StageBegin
  BY <1>1, CheckKeeps
<1>2. CASE \/ StageRefresh \/ Inspect \/ Verify \/ Validate \/ Staged
           \/ RequestRestart \/ RequestExit
  BY <1>2, StagingKeeps
<1>3. CASE UpdaterWaited \/ ExecFails \/ RestoreFails \/ Kill
  BY <1>3, MainKeeps
<1>4. CASE Exec \/ Boot
  BY <1>4, BootKeeps
<1>5. CASE StageError
  BY <1>5, StageErrorKeeps
<1>6. CASE CreateTemp
  BY <1>6, CreateTempKeeps
<1>7. CASE Download \/ SyncFile
  BY <1>7, DownloadKeeps
<1>8. CASE LinkBackup
  BY <1>8, LinkBackupKeeps
<1>9. CASE Rename
  BY <1>9, RenameKeeps
<1>10. CASE RenameFails
  BY <1>10, RenameFailsKeeps
<1>11. CASE SyncDirectory
  BY <1>11, SyncDirectoryKeeps
<1>12. CASE Restore
  BY <1>12, RestoreKeeps
<1>13. CASE PowerLoss
  BY <1>13, PowerLossKeeps
<1>14. CASE UNCHANGED vars
  BY <1>14 DEF vars, IInv, TypeOK, AllAreGood, Good, HasIn, StagedIsNew, ImageIsKept, Control,
     RollbackIsReady, NoStrayFile
<1> QED BY <1>1, <1>2, <1>3, <1>4, <1>5, <1>6, <1>7, <1>8, <1>9, <1>10, <1>11, <1>12, <1>13,
        <1>14 DEF Next, StageStep, MainStep, Requests

(* IInv is an invariant of the updater, whatever GitHub publishes and      *)
(* wherever kills and power losses fall (checker.go, stage_unix.go,        *)
(* restart_unix.go).                                                       *)
THEOREM UpdaterInvariant == Spec => []IInv
<1> QED BY InitIsFine, NextKeepsIInv, PTL DEF Spec

(* Type correctness. *)
THEOREM TypesAreKept == Spec => []TypeOK
<1>1. IInv => TypeOK
  BY DEF IInv
<1> QED BY UpdaterInvariant, <1>1, PTL

(* Whatever part of an update reached the disk, the executable is whole.   *)
THEOREM ExecutableAlwaysSurvives == Spec => []ExecutableSurvives
<1>1. IInv => ExecutableSurvives
  <2> SUFFICES ASSUME IInv, NEW d \in durable \cup {dir}
               PROVE  file[d.exe].whole /\ file[d.exe].synced
    BY DEF ExecutableSurvives
  <2>1. d.exe \in Files
    BY DEF IInv, TypeOK, Directory
  <2>2. HasIn(d, d.exe)
    BY <2>1 DEF HasIn, Files
  <2> QED BY <2>1, <2>2 DEF IInv, AllAreGood, Good
<1> QED BY UpdaterInvariant, <1>1, PTL

(* When a restart is required, the status names the backup of the running  *)
(* program, and the executable is a newer one.                             *)
THEOREM RollbackIsAlwaysReady == Spec => []RollbackIsReady
<1>1. IInv => RollbackIsReady
  BY DEF IInv
<1> QED BY UpdaterInvariant, <1>1, PTL

(* Without a crash no temporary file outlives its update. *)
THEOREM NoFileIsLeftBehind == Spec => []NoStrayFile
<1>1. IInv => NoStrayFile
  BY DEF IInv
<1> QED BY UpdaterInvariant, <1>1, PTL

----------------------------------------------------------------------------
(* What a step may not do. *)

(* Actions that leave the directory and every file in it alone. *)
Elsewhere == \/ Publish \/ CheckStep \/ LoopStop \/ StageBegin \/ StageRefresh \/ Inspect
             \/ Verify \/ Validate \/ Staged \/ SyncDirectory \/ Requests
             \/ UpdaterWaited \/ Exec \/ ExecFails \/ RestoreFails \/ Kill \/ Boot
             \/ UNCHANGED vars

LEMMA ElsewhereIsQuiet ==
  ASSUME Elsewhere
  PROVE  UNCHANGED <<file, dir>>
BY DEF Elsewhere, Publish, CheckStep, LoopCheck, Check, LoopChecked, LoopStop, StageBegin,
   StageRefresh, Inspect, Verify, Validate, Staged, SyncDirectory, Requests, RequestRestart,
   RequestExit, UpdaterWaited, Exec, ExecFails, RestoreFails, Kill, Boot, vars

(* Steps of staging other than Rename install nothing. *)
LEMMA StagingInstallsNothing ==
  ASSUME IInv, StageError \/ CreateTemp \/ Download \/ SyncFile \/ LinkBackup \/ RenameFails
  PROVE  dir'.exe = dir.exe /\ file'[dir.exe].version = file[dir.exe].version
<1>1. /\ dir \in Directory /\ dir.exe \in Files /\ dir.exe <= made /\ made \in Files
      /\ file \in [Files -> Contents]
  BY ExeIsGood DEF IInv, TypeOK, Good, Contents
<1>2. CASE StageError
  BY <1>1, <1>2 DEF StageError, StageFails, SetDir, TempRemoved, Directory
<1>3. CASE CreateTemp
  <2>1. made + 1 # dir.exe
    BY <1>1 DEF Files
  <2> QED BY <1>1, <1>3, <2>1 DEF CreateTemp, SetDir, Directory
<1>4. CASE Download \/ SyncFile
  BY <1>1, <1>4 DEF Download, SyncFile, Synced, Contents
<1>5. CASE LinkBackup
  BY <1>1, <1>5 DEF LinkBackup, SetDir, Directory
<1>6. CASE RenameFails
  BY <1>1, <1>6 DEF RenameFails, SetDir, Directory
<1> QED BY <1>2, <1>3, <1>4, <1>5, <1>6

(* The installed version only goes up, whatever GitHub withdraws while a   *)
(* release is staged (Check and Stage compare twice); only Restore goes    *)
(* back.                                                                   *)
THEOREM VersionsOnlyGoUp == Spec => NeverDowngrades
<1>1. ASSUME IInv, [Next]_vars, up', main # "restore"
      PROVE  VersionOf(dir.exe)' >= VersionOf(dir.exe)
  <2>1. dir.exe \in Files /\ VersionOf(dir.exe) \in Nat
    BY <1>1, ExeIsGood DEF IInv, TypeOK, Versions
  <2>2. CASE Elsewhere
    BY <2>1, <2>2, ElsewhereIsQuiet
  <2>3. CASE StageError \/ CreateTemp \/ Download \/ SyncFile \/ LinkBackup \/ RenameFails
    BY <1>1, <2>1, <2>3, StagingInstallsNothing
  <2>4. CASE Rename
    <3>1. dir.exe = running /\ target > Current /\ VersionOf(staged) = target
      BY <1>1, <2>4 DEF Rename, IInv, StagedIsNew, ImageIsKept, Control
    <3>2. dir'.exe = staged /\ file' = file
      BY <1>1, <2>4 DEF Rename, SetDir, Installed, IInv, TypeOK, Directory
    <3>3. target \in Nat
      BY <1>1 DEF IInv, TypeOK, Versions
    <3> QED BY <2>1, <3>1, <3>2, <3>3
  <2>5. CASE Restore \/ PowerLoss
    BY <1>1, <2>5 DEF Restore, PowerLoss
  <2> QED BY <1>1, <2>2, <2>3, <2>4, <2>5 DEF Next, CheckStep, StageStep, MainStep, Elsewhere
<1>2. IInv /\ [Next]_vars
        => [up' /\ main # "restore" => VersionOf(dir.exe)' >= VersionOf(dir.exe)]_vars
  BY <1>1
<1> QED BY UpdaterInvariant, <1>2, PTL DEF Spec, NeverDowngrades

(* No step of this process takes back a required restart or the backup     *)
(* that its status names.                                                  *)
THEOREM RestartRequiredStays == Spec => RestartRequiredSticks
<1> DEFINE P == state = "restart_required" /\ (main = "serving" \/ main' # "serving")
                  => UNCHANGED status
<1>1. ASSUME IInv, Next PROVE P
  <2> SUFFICES ASSUME state = "restart_required", main = "serving" \/ main' # "serving"
               PROVE  UNCHANGED status
    OBVIOUS
  <2>1. loop \in {"select", "over"}
    BY <1>1 DEF IInv, Control
  <2>2. CASE CheckStep
    BY <2>1, <2>2 DEF CheckStep, LoopCheck, MayCheck, Check, LoopChecked
  <2>3. ~StageStep
    BY <2>1 DEF StageStep, StageBegin, StageRefresh, StageError, Inspect, CreateTemp, Download,
       Verify, SyncFile, Validate, LinkBackup, Rename, RenameFails, SyncDirectory, Staged
  <2>4. CASE Exec \/ Boot
    <3>1. main \in {"exec", "retry", "gone"} /\ main' = "serving"
      BY <1>1, <2>4 DEF Exec, Boot, Boots, IInv, Control
    <3> QED BY <3>1
  <2>5. CASE \/ Publish \/ LoopStop \/ Requests \/ UpdaterWaited \/ ExecFails \/ Restore
             \/ RestoreFails \/ Kill \/ PowerLoss
    BY <2>5 DEF Publish, LoopStop, Requests, RequestRestart, RequestExit, UpdaterWaited,
       ExecFails, Restore, RestoreFails, Kill, PowerLoss
  <2> QED BY <1>1, <2>2, <2>3, <2>4, <2>5 DEF Next, MainStep
<1>2. IInv /\ [Next]_vars => [P]_vars
  BY <1>1
<1> QED BY UpdaterInvariant, <1>2, PTL DEF Spec, RestartRequiredSticks

(* No step of the program takes a backup away but Restore, which installs  *)
(* it, and the rename of the same update when it fails.                    *)
THEOREM BackupsAreAlwaysKept == Spec => BackupsAreKept
<1> DEFINE P == up /\ up' => \A n \in Suffixes :
                  dir.old[n] \notin {NoFile, dir'.old[n]} =>
                    n = suffix \/ (main = "restore" /\ n = backupPath)
<1>1. ASSUME IInv, [Next]_vars PROVE P
  <2> SUFFICES ASSUME up, up', NEW n \in Suffixes, dir.old[n] \notin {NoFile, dir'.old[n]}
               PROVE  n = suffix \/ (main = "restore" /\ n = backupPath)
    OBVIOUS
  <2>1. dir \in Directory
    BY <1>1 DEF IInv, TypeOK
  <2>2. CASE Elsewhere
    BY <2>2, ElsewhereIsQuiet
  <2>3. CASE StageError
    BY <2>1, <2>3 DEF StageError, StageFails, SetDir, TempRemoved, Directory
  <2>4. CASE CreateTemp \/ Download \/ SyncFile \/ Rename
    BY <2>1, <2>4 DEF CreateTemp, Download, SyncFile, Rename, Installed, SetDir, Directory
  <2>5. CASE LinkBackup
    BY <2>1, <2>5 DEF LinkBackup, FirstFree, SetDir, Directory
  <2>6. CASE RenameFails
    BY <2>1, <2>6 DEF RenameFails, SetDir, Directory
  <2>7. CASE Restore
    BY <2>1, <2>7 DEF Restore, Restored, SetDir, Directory
  <2>8. CASE PowerLoss
    BY <2>8 DEF PowerLoss
  <2> QED BY <1>1, <2>2, <2>3, <2>4, <2>5, <2>6, <2>7, <2>8
          DEF Next, CheckStep, StageStep, MainStep, Elsewhere
<1>2. IInv /\ [Next]_vars => [P]_vars
  BY <1>1
<1> QED BY UpdaterInvariant, <1>2, PTL DEF Spec, BackupsAreKept

(* A restart ends in a newer program or in the file that ran before.       *)
THEOREM RestartsGoForward == Spec => RestartNeverGoesBack
<1> DEFINE P == main' = "serving" /\ main \in {"exec", "retry"}
                  => Current' > Current \/ running' = running
<1>1. ASSUME IInv, Next PROVE P
  <2> SUFFICES ASSUME main' = "serving", main \in {"exec", "retry"}
               PROVE  Current' > Current \/ running' = running
    OBVIOUS
  <2>1. up /\ loop = "over" /\ state = "restart_required"
    BY <1>1 DEF IInv, TypeOK, Control
  <2>2. main' = main \/ main' = "gone" \/ main' = "restore" \/ Exec
    BY <1>1, <2>1 DEF Next, Publish, CheckStep, LoopCheck, Check, LoopChecked, LoopStop, StageStep,
       StageBegin, StageRefresh, StageError, StageFails, Inspect, CreateTemp, Download, Verify,
       SyncFile, Validate, LinkBackup, Rename, RenameFails, SyncDirectory, Staged, Requests,
       RequestRestart, RequestExit, MainStep, UpdaterWaited, ExecFails, Restore, RestoreFails,
       Kill, PowerLoss, Boot
  <2>3. running' = dir.exe /\ file' = file
    BY <2>2 DEF Exec, Boots
  <2> QED BY <1>1, <2>1, <2>3 DEF IInv, RollbackIsReady, ImageIsKept
<1>2. IInv /\ [Next]_vars => [P]_vars
  BY <1>1
<1> QED BY UpdaterInvariant, <1>2, PTL DEF Spec, RestartNeverGoesBack
==============================================================================
