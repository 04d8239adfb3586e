------------------------- MODULE AptRepositoryFile -------------------------
(***************************************************************************)
(* One APT repository file written by APTRepositoryFile::parse and         *)
(* APTRepositoryFile::write (proxmox-apt/src/repositories/file.rs), as the *)
(* API handlers of the daemons' worker processes use them: parse the file, *)
(* change the repositories, write them back with the digest of the parse.  *)
(*                                                                         *)
(* The file system is modelled at the level write() relies on: a directory *)
(* maps names to inodes, an inode holds data. The data of a file is        *)
(* abstracted to who wrote it: "orig" (initial content), "ext" (an edit by *)
(* another program), a request's own content, "empty" (truncated by an     *)
(* O_TRUNC open and not yet written) or "torn" (a write cut short). A      *)
(* sha256 digest of content is the content itself (no collisions).         *)
(***************************************************************************)
EXTENDS Naturals, FiniteSets, SequencesExt, AptRepository

CONSTANTS
    Writers,       \* API handler threads
    Process,       \* writer -> the worker process it runs in
    MaxEdits,      \* edits of the file by other programs
    MaxCrashes     \* crashes (and restarts, with a new pid) of processes

ASSUME MaxEdits \in Nat /\ MaxCrashes \in Nat

NoRepos == "norepos"    \* the handler removed every repository

Procs == {Process[w] : w \in Writers}

\* The data of an inode (tuples, so that all of them compare): the initial
\* content, an edit by another program, a truncated file, a torn write.
Orig == <<"orig">>
Ext == <<"ext">>
Empty == <<"empty">>
Torn == <<"torn">>

\* A request's content: the writer and the incarnation of its process.
Contents == (Writers \X (0..MaxCrashes)) \cup {Orig, Ext}
Data == Contents \cup {Empty, Torn}

\* The file itself: APT_SOURCES_LIST_DIRECTORY/<name>.list.
path == <<"list", 0>>

\* The temporary path of write(): the extension of `path` replaced by the
\* pid, here <<process, incarnation>>. All threads of one process share
\* it; a restarted process has a new pid and so a new temporary name.
tmp_path_inplace(p) == path
tmp_path(p) == <<"tmp", p>>

\* Another repository file of the directory, which no writer touches, and
\* /etc/apt/sources.list (also never written here).
other == <<"list", 1>>
SourcesList == <<"sources.list">>

Names == {path, other} \cup {tmp_path(p) : p \in Procs \X (0..MaxCrashes)}

\* Inodes are numbered; 1 is the file's initial inode, 0 the other file's.
MaxIno == 1 + MaxEdits + (MaxCrashes + 1) * Cardinality(Writers)
Inos == 0..MaxIno

(***************************************************************************)
(* The repositories of a content (AptRepository). The instance is a       *)
(* Proxmox VE host on bookworm.                                           *)
(***************************************************************************)
DebianHost == <<"deb", "debian", "org">>
EnterpriseHost == <<"enterprise", "proxmox", "com">>
DownloadHost == <<"download", "proxmox", "com">>
MirrorHost == <<"mirror", "example", "org">>

\* The initial files: Debian main, whose InRelease file APT cached, the
\* security repository and pve-enterprise. Another program's edit: the
\* Quincy repository with the old component "main" written with a trailing
\* slash, a deb-src line, Reef of the older suite, the security repository
\* with the pre-bullseye suffix, the next release (an upgrade being
\* prepared) and a mirror with the `stable` keyword and a second URI.
\* A handler's edit: pve-enterprise disabled, pve-no-subscription added.
\* An empty file has none.
RepositoriesOf[content \in Data] ==
    CASE content = Orig ->
            <<Repo({"deb"}, <<Uri("http", DebianHost, "debian", 0)>>, {<<"bookworm">>},
                   {"main"}, TRUE, "Debian"),
              Repo({"deb"}, <<Uri("http", SecurityHost, "debian-security", 0)>>,
                   {<<"bookworm", "-security">>}, {"main"}, TRUE, None),
              Repo({"deb"}, <<Uri("https", EnterpriseHost, "debian/pve", 0)>>, {<<"bookworm">>},
                   {"pve-enterprise"}, TRUE, None)>>
      [] content = Ext ->
            <<Repo({"deb"}, <<Uri("http", DownloadHost, "debian/ceph-quincy", 1)>>,
                   {<<"bookworm">>}, {"main"}, TRUE, None),
              Repo({"deb-src"}, <<Uri("http", DownloadHost, "debian/pve", 0)>>, {<<"bookworm">>},
                   {"pve-no-subscription"}, TRUE, None),
              Repo({"deb"}, <<Uri("http", DownloadHost, "debian/ceph-reef", 0)>>,
                   {<<"bullseye">>}, {"no-subscription"}, TRUE, None),
              Repo({"deb"}, <<Uri("http", SecurityHost, "", 1)>>, {<<"bookworm", "/updates">>},
                   {"main"}, TRUE, None),
              Repo({"deb"}, <<Uri("http", DebianHost, "debian", 0)>>, {<<"trixie">>},
                   {"main"}, TRUE, None),
              Repo({"deb", "deb-src"},
                   <<Uri("http", MirrorHost, "debian", 0), Uri("https", DebianHost, "debian", 0)>>,
                   {<<"stable">>}, {"main"}, TRUE, None)>>
      [] content = Empty -> <<>>
      [] OTHER ->
            <<Repo({"deb"}, <<Uri("https", EnterpriseHost, "debian/pve", 0)>>, {<<"bookworm">>},
                   {"pve-enterprise"}, FALSE, "Proxmox"),
              Repo({"deb"}, <<Uri("http", DownloadHost, "debian/pve", 0)>>, {<<"bookworm">>},
                   {"pve-no-subscription"}, TRUE, None)>>

\* Every repository of the files with contents cs, in the order of files
\* and then lines.
AllRepositories(cs) ==
    FlattenSeq([i \in 1..Len(cs) |-> RepositoriesOf[cs[i]]])

\* The result depends on the files' contents only; it is tabulated over
\* the content sequences of at most three files (sources.list and the two
\* files of sources.list.d that a listing may return).
Listings == BoundedSeq(Data, 3)
ContentsOf(files) == [i \in 1..Len(files) |-> files[i][2]]

StandardOf[cs \in Listings] ==
    StandardLoop([h \in StandardHandles |-> None], AllRepositories(cs))

standard_repositories(files) == StandardOf[ContentsOf(files)]

\* check_repositories of files with the contents cs on a host of release c;
\* a file's path is its position in `files`.
InfosOf(cs, c) ==
    check_repositories([i \in 1..Len(cs) |-> <<i, RepositoriesOf[cs[i]]>>], c)

VARIABLES
    dir,        \* name -> inode or None
    data,       \* inode -> Data
    nextIno,    \* the next fresh inode
    pid,        \* process -> its incarnation: 0..MaxCrashes
    crashes,    \* crashes so far, of any process
    edits,      \* edits made by other programs so far
    pc,         \* writer -> where it is in parse/write
    digest,     \* writer -> self.digest: content read by parse, or None
    repos,      \* writer -> self.repositories after the handler's change
    fd,         \* writer -> inode of the open temporary file, or None
    result,     \* writer -> "ok" / "err" / None
    version,    \* ghost: number of changes of the live file
    seen,       \* ghost: version read by the writer's parse
    atRename,   \* ghost: version replaced by the writer's rename
    lsPc,       \* the listing (repositories()): "idle", "reading", "done"
    lsTodo,     \* directory entries read_dir returned, not yet handled
    lsFiles,    \* the `files` Vec: <<name, digest>> in the order parsed
    lsErrors,   \* names of the `errors` Vec
    lsDigest,   \* the common digest returned, or None
    lsStandard  \* standard_repositories() of the files: handle -> status

wvars == <<dir, data, nextIno, pid, crashes, edits, pc, digest, repos, fd, result,
           version, seen, atRename>>
lsvars == <<lsPc, lsTodo, lsFiles, lsErrors, lsDigest, lsStandard>>
vars == <<wvars, lsvars>>
\* The state without the ghosts version, seen and atRename, which no action
\* reads: runs whose properties do not mention them fingerprint this.
GhostFreeView == <<dir, data, nextIno, pid, crashes, edits, pc, digest, repos, fd,
                   result, lsvars>>

Pcs == {"idle", "parsed", "checked", "opened", "written", "cleanup", "done"}

TypeOK ==
    /\ dir \in [Names -> Inos \cup {None}]
    /\ DOMAIN data = Inos /\ \A i \in Inos : data[i] \in Data
    /\ nextIno \in Inos \cup {MaxIno + 1}
    /\ pid \in [Procs -> 0..MaxCrashes]
    /\ crashes \in 0..MaxCrashes
    /\ edits \in 0..MaxEdits
    /\ pc \in [Writers -> Pcs]
    /\ \A w \in Writers : digest[w] \in Data \cup {None}
    /\ \A w \in Writers : repos[w] \in {w, NoRepos}
    /\ fd \in [Writers -> Inos \cup {None}]
    \* fs::write holds its descriptor only between create and close
    /\ \A w \in Writers : fd[w] # None <=> pc[w] = "opened"
    /\ result \in [Writers -> {"ok", "err", None}]
    /\ version \in Nat
    /\ \A w \in Writers : {seen[w], atRename[w]} \subseteq Nat \cup {None}
    /\ lsPc \in {"idle", "reading", "done"}
    /\ lsTodo \subseteq Names
    /\ lsErrors \subseteq Names
    /\ \A i \in DOMAIN lsFiles : lsFiles[i] \in ({SourcesList} \cup Names) \X Data
    /\ lsStandard \in [StandardHandles -> {TRUE, FALSE, None}] \cup {None}

Init ==
    /\ dir = [n \in Names |-> CASE n = path -> 1 [] n = other -> 0 [] OTHER -> None]
    /\ data = [i \in Inos |-> IF i \in {0, 1} THEN Orig ELSE Empty]
    /\ nextIno = 2
    /\ pid = [q \in Procs |-> 0]
    /\ crashes = 0
    /\ edits = 0
    /\ pc = [w \in Writers |-> "idle"]
    /\ digest = [w \in Writers |-> None]
    /\ repos = [w \in Writers |-> w]
    /\ fd = [w \in Writers |-> None]
    /\ result = [w \in Writers |-> None]
    /\ version = 0
    /\ seen = [w \in Writers |-> None]
    /\ atRename = [w \in Writers |-> None]
    /\ lsPc = "idle"
    /\ lsTodo = {}
    /\ lsFiles = <<>>
    /\ lsErrors = {}
    /\ lsDigest = None
    /\ lsStandard = None

\* The version after a change of the data of inode i.
Touch(i) == IF dir[path] = i THEN version + 1 ELSE version

\* std::process::id() of the process w runs in.
PidOf(w) == <<Process[w], pid[Process[w]]>>

\* The content w's current request writes.
Mine(w) == <<w, pid[Process[w]]>>

\* parse() reads the file and parses it: an error if it is gone or torn.
Readable(n) == dir[n] # None /\ data[dir[n]] # Torn

Finish(w, r) ==
    /\ pc' = [pc EXCEPT ![w] = "done"]
    /\ result' = [result EXCEPT ![w] = r]

(***************************************************************************)
(* parse(): clear repositories and digest, read the file, parse it. The    *)
(* handler then changes the repositories: it keeps its own content or      *)
(* removes every repository.                                               *)
(***************************************************************************)
Parse(w) ==
    /\ pc[w] = "idle"
    /\ IF ~Readable(path)
         THEN /\ Finish(w, "err")
              /\ UNCHANGED <<digest, repos, seen>>
         ELSE /\ pc' = [pc EXCEPT ![w] = "parsed"]
              /\ digest' = [digest EXCEPT ![w] = data[dir[path]]]
              /\ seen' = [seen EXCEPT ![w] = version]
              /\ \E r \in {w, NoRepos} : repos' = [repos EXCEPT ![w] = r]
              /\ UNCHANGED result
    /\ UNCHANGED <<dir, data, nextIno, pid, crashes, edits, fd, version, atRename>>

(***************************************************************************)
(* write(), first part: with a digest, the file must exist and its current *)
(* content must have the same digest.                                      *)
(***************************************************************************)
DigestMatches(w) == dir[path] # None /\ data[dir[path]] = digest[w]

CheckDigest(w) ==
    /\ pc[w] = "parsed"
    /\ IF DigestMatches(w)
         THEN /\ pc' = [pc EXCEPT ![w] = "checked"]
              /\ UNCHANGED result
         ELSE /\ Finish(w, "err")
    /\ UNCHANGED <<dir, data, nextIno, pid, crashes, edits, digest, repos, fd, version,
                   seen, atRename>>

\* No repositories left: remove_file(path).
RemoveFile(w) ==
    /\ pc[w] = "checked"
    /\ repos[w] = NoRepos
    /\ IF dir[path] = None
         THEN /\ Finish(w, "err")
              /\ UNCHANGED <<dir, version, atRename>>
         ELSE /\ dir' = [dir EXCEPT ![path] = None]
              /\ version' = version + 1
              /\ atRename' = [atRename EXCEPT ![w] = version]
              /\ Finish(w, "ok")
    /\ UNCHANGED <<data, nextIno, pid, crashes, edits, digest, repos, fd, seen>>

\* A repository fails basic_check, serialising fails, or the parent
\* directory cannot be created: write() returns before touching a file.
ContentRejected(w) ==
    /\ pc[w] = "checked"
    /\ repos[w] # NoRepos
    /\ Finish(w, "err")
    /\ UNCHANGED <<dir, data, nextIno, pid, crashes, edits, digest, repos, fd, version,
                   seen, atRename>>

(***************************************************************************)
(* std::fs::write(tmp_path, content): File::create opens the name with     *)
(* O_CREAT|O_TRUNC (an existing inode is truncated), write_all writes,     *)
(* the file is closed.                                                     *)
(***************************************************************************)
CreateTmp(w) ==
    /\ pc[w] = "checked"
    /\ repos[w] # NoRepos
    /\ LET t == tmp_path(PidOf(w)) IN
       IF dir[t] # None
         THEN /\ fd' = [fd EXCEPT ![w] = dir[t]]
              /\ data' = [data EXCEPT ![dir[t]] = Empty]
              /\ version' = Touch(dir[t])
              /\ UNCHANGED <<dir, nextIno>>
         ELSE /\ nextIno <= MaxIno
              /\ fd' = [fd EXCEPT ![w] = nextIno]
              /\ dir' = [dir EXCEPT ![t] = nextIno]
              /\ data' = [data EXCEPT ![nextIno] = Empty]
              /\ nextIno' = nextIno + 1
              /\ UNCHANGED version
    /\ pc' = [pc EXCEPT ![w] = "opened"]
    /\ UNCHANGED <<pid, crashes, edits, digest, repos, result, seen, atRename>>

\* write_all at offset 0 of the inode. Over data another thread wrote
\* through its own descriptor, the result is ours only if ours is longer.
WriteAll(w) ==
    /\ pc[w] = "opened"
    /\ \E d \in IF data[fd[w]] \in {Empty, Mine(w)} THEN {Mine(w)}
                                                  ELSE {Mine(w), Torn} :
          data' = [data EXCEPT ![fd[w]] = d]
    /\ version' = Touch(fd[w])
    /\ fd' = [fd EXCEPT ![w] = None]
    /\ pc' = [pc EXCEPT ![w] = "written"]
    /\ UNCHANGED <<dir, nextIno, pid, crashes, edits, digest, repos, result, seen,
                   atRename>>

\* write_all fails (ENOSPC, EIO) after writing nothing or a part.
WriteFailed_keepsFd(w) ==
    /\ pc[w] = "opened"
    /\ \E d \in {data[fd[w]], Torn} : data' = [data EXCEPT ![fd[w]] = d]
    /\ version' = Touch(fd[w])
    /\ pc' = [pc EXCEPT ![w] = "cleanup"]
    /\ UNCHANGED <<dir, nextIno, pid, crashes, edits, digest, repos, fd, result, seen,
                   atRename>>
WriteFailed(w) ==
    /\ pc[w] = "opened"
    /\ \E d \in {data[fd[w]], Torn} : data' = [data EXCEPT ![fd[w]] = d]
    /\ version' = Touch(fd[w])
    /\ fd' = [fd EXCEPT ![w] = None]
    /\ pc' = [pc EXCEPT ![w] = "cleanup"]
    /\ UNCHANGED <<dir, nextIno, pid, crashes, edits, digest, repos, result, seen,
                   atRename>>

\* rename(tmp_path, path): whatever inode the shared name holds now.
Rename(w) ==
    /\ pc[w] = "written"
    /\ dir[tmp_path(PidOf(w))] # None
    /\ dir' = [dir EXCEPT ![path] = dir[tmp_path(PidOf(w))], ![tmp_path(PidOf(w))] = None]
    /\ version' = version + 1
    /\ atRename' = [atRename EXCEPT ![w] = version]
    /\ Finish(w, "ok")
    /\ UNCHANGED <<data, nextIno, pid, crashes, edits, digest, repos, fd, seen>>

\* rename fails: the name is gone (ENOENT), or any other error (EIO, a
\* read-only remount) while it is still there.
RenameFailed(w) ==
    /\ pc[w] = "written"
    /\ pc' = [pc EXCEPT ![w] = "cleanup"]
    /\ UNCHANGED <<dir, data, nextIno, pid, crashes, edits, digest, repos, fd, result,
                   version, seen, atRename>>

\* let _ = remove_file(&tmp_path): removes whatever the shared name holds.
Cleanup_keepsTmp(w) ==
    /\ pc[w] = "cleanup"
    /\ Finish(w, "err")
    /\ UNCHANGED <<dir, data, nextIno, pid, crashes, edits, digest, repos, fd, version,
                   seen, atRename>>
Cleanup(w) ==
    /\ pc[w] = "cleanup"
    /\ dir' = [dir EXCEPT ![tmp_path(PidOf(w))] = None]
    /\ Finish(w, "err")
    /\ UNCHANGED <<data, nextIno, pid, crashes, edits, digest, repos, fd, version, seen,
                   atRename>>

(***************************************************************************)
(* The environment. Another program (an editor, apt tooling, a second     *)
(* daemon with its own pid) replaces the file by rename. The process may   *)
(* crash at any point: a write in progress leaves its inode empty or torn, *)
(* names stay where they are, and the restarted process (new pid) serves   *)
(* new requests.                                                           *)
(***************************************************************************)
ExternalEdit ==
    /\ edits < MaxEdits
    /\ nextIno <= MaxIno
    /\ dir' = [dir EXCEPT ![path] = nextIno]
    /\ data' = [data EXCEPT ![nextIno] = Ext]
    /\ nextIno' = nextIno + 1
    /\ edits' = edits + 1
    /\ version' = version + 1
    /\ UNCHANGED <<pid, crashes, pc, digest, repos, fd, result, seen,
                   atRename>>

\* f with the entries of the writers in ws set to v.
Reset(f, ws, v) == [w \in Writers |-> IF w \in ws THEN v ELSE f[w]]

\* Process q dies; its threads' requests are lost, the other processes
\* go on.
Crash(q) ==
    /\ crashes < MaxCrashes
    /\ LET ws == {w \in Writers : Process[w] = q} IN
       /\ \E cut \in SUBSET {fd[w] : w \in {v \in ws : pc[v] = "opened"}} :
             /\ data' = [i \in Inos |-> IF i \in cut THEN Torn ELSE data[i]]
             /\ version' = IF dir[path] \in cut THEN version + 1 ELSE version
       /\ pc' = Reset(pc, ws, "idle")
       /\ digest' = Reset(digest, ws, None)
       /\ repos' = [w \in Writers |-> IF w \in ws THEN w ELSE repos[w]]
       /\ fd' = Reset(fd, ws, None)
       /\ result' = Reset(result, ws, None)
       /\ seen' = Reset(seen, ws, None)
       /\ atRename' = Reset(atRename, ws, None)
    /\ pid' = [pid EXCEPT ![q] = @ + 1]
    /\ crashes' = crashes + 1
    /\ UNCHANGED <<dir, nextIno, edits>>

(***************************************************************************)
(* repositories() lists sources.list.d: APTRepositoryFile::new classifies  *)
(* each name by its extension, and a file it accepts is parsed. The file   *)
(* is <name>.list; a temporary name is <name>.<pid> (set_extension("tmp") *)
(* then set_extension(pid)), so its extension is a number.                 *)
(***************************************************************************)
Extension(n) == IF n \in {path, other} THEN "list" ELSE "digits"

IgnoredExtensions == {"dpkg-old", "ucf-old", "disabled", "bak", "save", "orig",
                      "distUpgrade"}

\* new(): Ok(None) for an extension APT ignores, an error for one that is
\* neither "list" nor "sources", otherwise a file to parse.
new(ext) ==
    CASE ext = ""                   -> "error"
      [] ext \in IgnoredExtensions  -> "ignored"
      [] ext \notin {"list", "sources"} -> "error"
      [] OTHER                      -> "file"

\* The names repositories() puts into its error list.
ListingErrors ==
    {n \in Names : dir[n] # None /\
                   \/ new(Extension(n)) = "error"
                   \/ new(Extension(n)) = "file" /\ data[dir[n]] = Torn}

(***************************************************************************)
(* repositories() (mod.rs), run by a request of another process alongside *)
(* the writers: /etc/apt/sources.list (a regular file, never written      *)
(* here) is parsed first, then read_dir lists sources.list.d and every    *)
(* entry is classified by new() and parsed when the loop reaches it: the  *)
(* file may have changed or gone since read_dir. The order of read_dir is *)
(* unspecified.                                                           *)
(***************************************************************************)
ListStart ==
    /\ lsPc = "idle"
    /\ lsFiles' = <<<<SourcesList, Orig>>>>
    /\ lsTodo' = {n \in Names : dir[n] # None}
    /\ lsPc' = "reading"
    /\ UNCHANGED <<lsErrors, lsDigest, lsStandard>>

ListEntry(n) ==
    /\ lsPc = "reading"
    /\ n \in lsTodo
    /\ lsTodo' = lsTodo \ {n}
    /\ CASE new(Extension(n)) = "ignored" ->
              UNCHANGED <<lsFiles, lsErrors>>
         [] new(Extension(n)) = "file" /\ Readable(n) ->
              /\ lsFiles' = Append(lsFiles, <<n, data[dir[n]]>>)
              /\ UNCHANGED lsErrors
         [] OTHER ->
              /\ lsErrors' = lsErrors \cup {n}
              /\ UNCHANGED lsFiles
    /\ UNCHANGED <<lsPc, lsDigest, lsStandard>>

\* Path order of the BTreeMap: /etc/apt/sources.list sorts before the
\* files of sources.list.d, which sort by name.
PathRank(n) == IF n = SourcesList THEN 0 ELSE n[2] + 1

\* common_digest: the digests in path order (a BTreeMap keyed by path),
\* sha256 of their concatenation modelled by the sequence itself.
common_digest(files) ==
    LET byPath == SetToSortSeq(ToSet(files), LAMBDA a, b : PathRank(a[1]) < PathRank(b[1]))
    IN  [i \in 1..Len(byPath) |-> byPath[i][2]]

\* to_result: the files, the errors, the common digest; the handler then
\* computes standard_repositories on the files.
ListDone ==
    /\ lsPc = "reading"
    /\ lsTodo = {}
    /\ lsPc' = "done"
    /\ lsDigest' = common_digest(lsFiles)
    /\ lsStandard' = standard_repositories(lsFiles)
    /\ UNCHANGED <<lsTodo, lsFiles, lsErrors>>

Next ==
    \/ /\ \/ \E w \in Writers :
             \/ Parse(w) \/ CheckDigest(w) \/ RemoveFile(w) \/ ContentRejected(w)
             \/ CreateTmp(w) \/ WriteAll(w) \/ WriteFailed(w)
             \/ Rename(w) \/ RenameFailed(w) \/ Cleanup(w)
          \/ ExternalEdit
          \/ \E q \in Procs : Crash(q)
       /\ UNCHANGED lsvars
    \/ /\ \/ ListStart
          \/ \E n \in Names : ListEntry(n)
          \/ ListDone
       /\ UNCHANGED wvars

Spec == Init /\ [][Next]_vars

(***************************************************************************)
(* Properties                                                              *)
(***************************************************************************)

\* Crash safety of write(): the content is written to a temporary name and
\* renamed over the file, so whenever the file exists it holds a complete
\* content that some writer finished, never a truncated or torn one, even
\* when the process dies in the middle of write_all.
NeverTorn ==
    dir[path] # None => data[dir[path]] \in Contents

\* What the doc comment of write() leads a caller to rely on: a write with
\* a digest replaces exactly the content it parsed, so an edit made by
\* anyone since the parse is never lost.
NoLostUpdate ==
    \A w \in Writers :
        result[w] = "ok" /\ atRename[w] # None => atRename[w] = seen[w]

\* The error paths of write() remove the temporary file: a name that
\* repositories() rejects, besides the repository file itself, is the
\* temporary file of a write() of its process still between fs::write and
\* rename (or its cleanup), or one a crashed earlier incarnation left.
TmpCleanedUp ==
    \A n \in ListingErrors \ {path}, q \in Procs :
        n = tmp_path(<<q, pid[q]>>) =>
            \E w \in Writers : Process[w] = q /\ pc[w] \in {"opened", "written", "cleanup"}

\* What the doc comment of standard_repositories says a listing of
\* contents cs yields: None for a handle no repository references,
\* Some(enabled) otherwise.
DocumentedStatus[cs \in Listings] ==
    LET listed == ToSet(AllRepositories(cs))
        refs(h) == {r \in listed : is_referenced_repository(r, h)}
    IN [h \in StandardHandles |->
           IF refs(h) = {} THEN None ELSE \E r \in refs(h) : r.enabled]

\* What the doc comments of check_repositories, check_suites and check_uris
\* promise on a host of release c, per repository of a listing (position
\* of the file, 0-based index, kind), in the doc's own kind names
\* (mod.rs:48-51): a deb repository gets `warnings` when a suite is old,
\* unstable, the `stable` keyword, or, on the security repository, a
\* release without the suffix of the current one; the release after the
\* current one gets `ignore-pre-upgrade-warning`; a repository of an
\* official host, or with a cached Origin, gets a `badge`.
DocumentedInfoKinds(cs, c) ==
    LET files == [i \in 1..Len(cs) |-> RepositoriesOf[cs[i]]]
        Old(b) == b \in {"oldoldstable", "oldstable"} \/ (IsCodename(b) /\ Codename(b) < c)
        Unstable(b) == b \in {"testing", "unstable", "experimental", "sid"}
                       \/ (IsCodename(b) /\ Codename(b) > c + 1)
        Required == IF c >= Bullseye THEN "-security" ELSE "/updates"
        BadSecurity(r, s) == is_security_repo(r) /\ IsCodename(s[1])
                             /\ suite_variant(s)[2] # Required
        Warned(r) == \E s \in r.suites :
                        Old(s[1]) \/ Unstable(s[1]) \/ s[1] = "stable" \/ BadSecurity(r, s)
        PreUpgrade(r) == \E s \in r.suites : IsCodename(s[1]) /\ Codename(s[1]) = c + 1
        Official(r) == \/ r.cachedOrigin # None
                       \/ \E u \in Range(r.uris) :
                            /\ u.scheme \in {"http", "https"}
                            /\ HostIn(u.host, <<"proxmox", "com">>) \/ HostIn(u.host, <<"debian", "org">>)
        Has(r, k) == CASE k = "badge" -> Official(r)
                       [] k = "warnings" -> "deb" \in r.types /\ Warned(r)
                       [] OTHER -> "deb" \in r.types /\ PreUpgrade(r)
        Kinds(r) == {k \in {"warnings", "ignore-pre-upgrade-warning", "badge"} : Has(r, k)}
    IN UNION {UNION {{<<i, n - 1, k>> : k \in Kinds(files[i][n])} : n \in DOMAIN files[i]}
              : i \in DOMAIN files}

\* The kind strings the code emits are not the doc's names: check_suites
\* adds "warning" (file.rs:390-419) where the doc says `warnings`, and
\* check_uris adds "origin" (file.rs:453) where it says `badge`. The
\* comparison below translates the code's strings to the doc's names, so
\* it checks which repositories get which class of information, not the
\* names (the README lists the naming disagreement).
DocKindName(k) ==
    CASE k = "warning" -> "warnings"
      [] k = "origin" -> "badge"
      [] OTHER -> k

\* The releases the checks are compared on: the host's, the two on either
\* side of the change of the security suffix, and the newest, which has no
\* next release.
EdgeReleases == {Codename(Suite), Codename("buster"), Codename("bullseye"), Codename("trixie")}

InfosAgree(cs) ==
    \A c \in EdgeReleases :
        {<<f.path, f.index, DocKindName(f.kind)>> : f \in InfosOf(cs, c)} = DocumentedInfoKinds(cs, c)

\* What a listing reports is what the doc comments promise, up to the kind
\* names (DocKindName): the status
\* standard_repositories gives each handle (a handle referenced by an
\* enabled and by a disabled line is enabled, whichever file read_dir
\* returned first), and which repositories check_repositories marks with a
\* warning, a pre-upgrade mark or a badge, whatever the writers and
\* other programs left in the files, on this host and on hosts of the
\* EdgeReleases. A completed listing never changes and every handler
\* eventually returns, so it is checked once all have.
ListingAsDocumented ==
    lsPc = "done" /\ (\A w \in Writers : pc[w] = "done") =>
        LET cs == ContentsOf(lsFiles)
        IN lsStandard = DocumentedStatus[cs] /\ InfosAgree(cs)

=============================================================================
