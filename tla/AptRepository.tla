--------------------------- MODULE AptRepository ---------------------------
(***************************************************************************)
(* The checks proxmox-apt makes on parsed repositories, as pure operators: *)
(* APTRepository::is_referenced_repository and origin_from_uris           *)
(* (repository.rs), APTRepositoryFile::check_suites and check_uris         *)
(* (file.rs), and check_repositories and standard_repositories (mod.rs).   *)
(*                                                                         *)
(* A repository is a record of the fields these functions read. A URI is   *)
(* its scheme, its host as a sequence of labels, its path without leading  *)
(* or trailing slashes, and the number of slashes it ended with. A suite   *)
(* is a sequence of parts, split before each '-' or '/', so that           *)
(* <<"bookworm", "-security">> is the suite "bookworm-security".           *)
(***************************************************************************)
EXTENDS Naturals, Sequences, SequencesExt

CONSTANT None    \* a model value: no result, no origin, not configured

\* The product and Debian release of the host (the instance is a Proxmox VE
\* host on bookworm).
Product == "pve"
Suite == "bookworm"

Uri(scheme, host, path, slashes) ==
    [scheme |-> scheme, host |-> host, path |-> path, slashes |-> slashes]

\* The URI compared by is_referenced_repository: uri.trim_end_matches('/').
Trimmed(u) == [scheme |-> u.scheme, host |-> u.host, path |-> u.path]

\* `cachedOrigin`: the Origin: field of the InRelease file APT cached for
\* the repository, or None when there is none or it cannot be read
\* (get_cached_origin's Err is treated as None by check_uris).
Repo(types, uris, suites, components, enabled, cachedOrigin) ==
    [types |-> types, uris |-> uris, suites |-> suites,
     components |-> components, enabled |-> enabled,
     cachedOrigin |-> cachedOrigin]

\* The text of a suite.
SuiteText(s) == FlattenSeq(s)

\* suite_variant: the base part up to the first '-' or '/', and the rest.
suite_variant(s) == <<s[1], IF Len(s) = 1 THEN "" ELSE FlattenSeq(Tail(s))>>

(***************************************************************************)
(* DebianCodename of proxmox-apt-api-types: the releases in order; a      *)
(* codename is its position, and try_into fails on any other text.        *)
(***************************************************************************)
CodenameNumber ==
    [lenny |-> 1, squeeze |-> 2, wheezy |-> 3, jessie |-> 4, stretch |-> 5,
     buster |-> 6, bullseye |-> 7, bookworm |-> 8, trixie |-> 9]
IsCodename(b) == b \in DOMAIN CodenameNumber
Codename(b) == CodenameNumber[b]
Bullseye == Codename("bullseye")
\* The text of a codename (its Display).
CodenameName(c) == CHOOSE b \in DOMAIN CodenameNumber : CodenameNumber[b] = c
\* DebianCodename::next: the following release, None after the last one.
next(c) == IF c < 9 THEN c + 1 ELSE None

(***************************************************************************)
(* standard_repositories(files, product, suite)                           *)
(***************************************************************************)

\* The handles of the product and suite, in the order of `result`.
StandardHandles ==
    {"Enterprise", "NoSubscription", "Test"}
    \cup (IF Product = "pve"
            THEN {"CephQuincyEnterprise", "CephQuincyNoSubscription", "CephQuincyTest"}
                 \cup (IF Suite = "bookworm"
                         THEN {"CephReefEnterprise", "CephReefNoSubscription", "CephReefTest"}
                         ELSE {})
            ELSE {})

\* APTRepositoryHandle::info(product) for "pve": package type, URIs,
\* component.
HandleInfo[h \in StandardHandles] ==
    LET ent(r) == {Trimmed(Uri("https", <<"enterprise", "proxmox", "com">>, "debian/" \o r, 0))}
        dl(r) == {Trimmed(Uri("http", <<"download", "proxmox", "com">>, "debian/" \o r, 0))}
    IN CASE h = "Enterprise"               -> <<"deb", ent("pve"), "pve-enterprise">>
         [] h = "NoSubscription"           -> <<"deb", dl("pve"), "pve-no-subscription">>
         [] h = "Test"                     -> <<"deb", dl("pve"), "pvetest">>
         [] h = "CephQuincyEnterprise"     -> <<"deb", ent("ceph-quincy"), "enterprise">>
         [] h = "CephQuincyNoSubscription" -> <<"deb", dl("ceph-quincy"), "no-subscription">>
         [] h = "CephQuincyTest"           -> <<"deb", dl("ceph-quincy"), "test">>
         [] h = "CephReefEnterprise"       -> <<"deb", ent("ceph-reef"), "enterprise">>
         [] h = "CephReefNoSubscription"   -> <<"deb", dl("ceph-reef"), "no-subscription">>
         [] h = "CephReefTest"             -> <<"deb", dl("ceph-reef"), "test">>

\* APTRepository::is_referenced_repository: the URI compared after
\* trim_end_matches('/'); for Quincy no-subscription "main" also counts.
is_referenced_repository(repo, h) ==
    LET info == HandleInfo[h]
        found_uri == \E i \in DOMAIN repo.uris : Trimmed(repo.uris[i]) \in info[2]
        found_component ==
            IF h = "CephQuincyNoSubscription"
              THEN info[3] \in repo.components \/ "main" \in repo.components
              ELSE info[3] \in repo.components
    IN /\ info[1] \in repo.types
       /\ found_uri
       /\ \E s \in repo.suites : SuiteText(s) = Suite
       /\ found_component

\* The loop over files, repositories and entries: an entry already
\* Some(true) is skipped, otherwise a referencing repository sets it.
StandardStep_lastWins(status, repo) ==
    [h \in DOMAIN status |->
        IF is_referenced_repository(repo, h) THEN repo.enabled ELSE status[h]]
StandardStep(status, repo) ==
    [h \in DOMAIN status |->
        IF status[h] = TRUE THEN TRUE
        ELSE IF is_referenced_repository(repo, h) THEN repo.enabled ELSE status[h]]

\* The loop, a left fold of StandardStep over the repositories.
RECURSIVE StandardLoop(_, _)
StandardLoop(status, repos) ==
    IF repos = <<>> THEN status
    ELSE StandardLoop(StandardStep(status, Head(repos)), Tail(repos))

(***************************************************************************)
(* check_repositories(files, current_suite) and the checks it runs on     *)
(* each file. An info is [path, index, kind, message]; a message is kept  *)
(* as the tuple of what it is about: <<"old", base>>, <<"new", base>>,    *)
(* <<"stable">>, <<"expected", suite>> or the origin's name.               *)
(***************************************************************************)

\* The Debian security repository, by the text check_suites compares:
\* trailing slashes and a "debian-security" path stripped.
SecurityHost == <<"security", "debian", "org">>
is_security_repo(repo) ==
    \E i \in DOMAIN repo.uris :
        LET u == repo.uris[i]
        IN /\ u.scheme \in {"http", "https"}
           /\ u.host = SecurityHost
           /\ u.path \in {"", "debian-security"}

\* The kind of info a codename after the current one gets: the next
\* release is the pre-upgrade case, tested before the "newer" one.
NewSuiteKind_nextLast(code, current) ==
    IF code > current THEN "warning"
    ELSE IF next(current) = code THEN "ignore-pre-upgrade-warning"
    ELSE None
NewSuiteKind(code, current) ==
    IF next(current) = code THEN "ignore-pre-upgrade-warning"
    ELSE IF code > current THEN "warning"
    ELSE None

\* The infos of one suite of the repository at index n.
SuiteInfos(path, n, s, current, require) ==
    LET info(kind, msg) == [path |-> path, index |-> n, kind |-> kind, message |-> msg]
        base == suite_variant(s)[1]
        suffix == suite_variant(s)[2]
        code == Codename(base)
    IN (CASE base \in {"oldoldstable", "oldstable"} -> {info("warning", <<"old", base>>)}
          [] base \in {"testing", "unstable", "experimental", "sid"} ->
                {info("warning", <<"new", base>>)}
          [] base = "stable" -> {info("warning", <<"stable">>)}
          [] OTHER -> {})
       \cup
       \* try_into fails: `continue`, with no suffix check
       (IF ~IsCodename(base) THEN {}
        ELSE (IF code < current THEN {info("warning", <<"old", base>>)} ELSE {})
             \cup {info(k, <<"new", base>>) : k \in {NewSuiteKind(code, current)} \ {None}}
             \cup (IF require # None /\ suffix # require
                     THEN {info("warning", <<"expected", CodenameName(current) \o require>>)}
                     ELSE {}))

\* APTRepositoryFile::check_suites: repositories without the deb type are
\* skipped; indices are 0-based, as enumerate() counts.
check_suites(path, repos, current) ==
    UNION {IF "deb" \notin repos[n].types THEN {}
           ELSE LET require == IF ~is_security_repo(repos[n]) THEN None
                               ELSE IF current >= Bullseye THEN "-security"
                               ELSE "/updates"
                IN UNION {SuiteInfos(path, n - 1, s, current, require) : s \in repos[n].suites}
           : n \in DOMAIN repos}

\* host_from_uri followed by origin_from_uris's tests: the first URI of
\* scheme http(s) whose host is or ends in proxmox.com or debian.org.
HostIn(host, domain) ==
    \/ host = domain
    \/ Len(host) > Len(domain)
       /\ SubSeq(host, Len(host) - Len(domain) + 1, Len(host)) = domain
OriginOfUri(u) ==
    IF u.scheme \notin {"http", "https"} THEN None
    ELSE IF HostIn(u.host, <<"proxmox", "com">>) THEN "Proxmox"
    ELSE IF HostIn(u.host, <<"debian", "org">>) THEN "Debian"
    ELSE None
origin_from_uris(repo) ==
    LET found == {i \in DOMAIN repo.uris : OriginOfUri(repo.uris[i]) # None}
    IN IF found = {} THEN None ELSE OriginOfUri(repo.uris[Min(found)])

\* APTRepositoryFile::check_uris: the cached origin, else the guessed one.
check_uris(path, repos) ==
    LET origin(r) == IF r.cachedOrigin # None THEN r.cachedOrigin ELSE origin_from_uris(r)
    IN {[path |-> path, index |-> n - 1, kind |-> "origin", message |-> origin(repos[n])]
        : n \in {m \in DOMAIN repos : origin(repos[m]) # None}}

\* check_repositories: both checks of every file, a file being a pair of
\* its path and its repositories.
check_repositories(files, current) ==
    UNION {check_suites(files[i][1], files[i][2], current)
           \cup check_uris(files[i][1], files[i][2]) : i \in DOMAIN files}

====
