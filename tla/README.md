# TLA+ models of the Proxmox connection front-end and its configuration files

This directory holds TLA+ models of four parts of the repository, and the TLC
configurations that check them:

- `src/proxmox/src/tools/websocket.rs`: the WebSocket frame codec, the reader,
  the writer as the relay uses it, the upgrade handshake and the relay.
- `src/proxmox-rest-server/src/connection.rs` and `lib.rs`:
  - the TLS acceptor builder;
  - the accept builder;
  - the accept loop with TLS/plaintext sniffing;
  - the shutdown flag.
- `src/proxmox-apt/src/repositories/`: concurrent `write()` of a repository
  file, the `repositories()` listing, `standard_repositories`, and the checks
  of `check_repositories` (`check_suites`, `check_uris`).
- `src/proxmox-acme-api/src/plugin_api_impl.rs`: the ACME plugin
  configuration handlers.

`PROJECT.json` lists:

- every component, modelled or not;
- every run with its expected result;
- a mutant for every checked property;
- the source lines behind every definition;
- the findings;
- the hazards of the code.

Run everything from this directory: `tlc -workers 2 -config <cfg> <module>`.

## 1. The system

**Connections.**

1. `accept_connections` accepts a TCP connection.
2. Depending on the mode, either every connection goes to TLS (`accept_tls`),
   or the first bytes are peeked to choose TLS or plaintext
   (`accept_tls_optional`).
3. A TLS connection is handshaken under a 10 s timeout.
4. The stream is sent on a bounded mpsc channel.
5. For a console endpoint, `WebSocket::new` answers the HTTP upgrade.
6. `serve_connection` relays between the browser and a backend byte stream:
   - `WebSocketReader` turns incoming frames into bytes;
   - `WebSocketWriter` writes outgoing frames;
   - an unbounded control channel carries Ping and Close.

Before any of this, the server builds its `SslAcceptor` with
`TlsAcceptorBuilder` and configures `AcceptBuilder`.

**Configuration files.** API handlers run as threads of worker processes and
change files on disk:

- **APT repository files.** `APTRepositoryFile::parse` and `write` read and
  replace a file through a `<name>.<pid>` temporary file and a rename. A
  digest guards the write.
- **Listing.** `repositories()` lists `/etc/apt/sources.list` and
  `sources.list.d`, and computes a common digest. The handler then computes
  the status of the standard repositories.
- **ACME plugins.** The handlers read and rewrite the plugin configuration
  under a lock, with a digest check on update.

## 2. Modules

| Module | Models | State ↔ code |
|---|---|---|
| `WsFrame` | The codec as operators over byte sequences: `mask_bytes`, `create_frame`, `FrameHeader::try_from_bytes`, `FrameHeader`, `is_control_frame`. | `mask_bytes(mask, data, align)` takes the size of the unaligned prefix that `align_to_mut::<u32>` yields as a parameter (0..3), because the buffer address is not under the program's control. `NativeLittleEndian` is the byte order of the u32 words. |
| `WsFrameParse` + `MCWsFrameParse` | A harness. It encodes with `create_frame`, feeds `try_from_bytes` the number of bytes it asks for, and unmasks at a second alignment. Raw peer headers are parsed too. | `phase`, `wire`, `fed`, `parsed`, `payload`. |
| `WsReader` + `MCWsReader` | `poll_read` driven by `tokio::io::copy`. The peer sends a script of frames, split into chunks of 1..`MaxChunk` bytes. | `state` (`ReaderState`), `buf` (`read_buffer`), `header`, `out`, `delivered`, `ctrl` (the control channel). There is one action per match arm and outcome. |
| `Relay` | The abstract relay: client data reaches the backend in order and backend bytes reach the client in order; Pongs echo Pings in order; Close is echoed, or Close 1000 is sent after the backend's EOF; nothing follows a Close. | `fromClient`, `fromBackend`, `toBackend`, `toClient`, `closed`. |
| `WsRelay` + `MCWsRelay` | `WebSocket::new` and `serve_connection`: `ws_future` (copy through the reader) and `term_future` (`copy_to_websocket` with its random `select!` over backend data, backend EOF and the control channel), partial frame writes, and the failures of either. | It refines `Relay` through `INSTANCE Relay WITH ...`. |
| `TlsAcceptorBuilder` | The setters and `build()`: the three arms of the match on `self.tls`, key and certificate installation, `NO_RENEGOTIATION`, and `check_private_key().unwrap()`. | Keys and paths are model values. A PEM file holds a key, a certificate or garbage. |
| `ServerSetup` | Extends `TlsAcceptorBuilder` with `AcceptBuilder` (`Default`, the setters) and `accept_tls(_optional)`. | `mpsc::channel(max_pending_accepts)` panics on 0. `build()` and `accept_tls` take the builder by value, so its fields are reset once they return: after `build()` only the acceptor remains. |
| `Server` + `MCServer` | `ServerSetup` composed with `AcceptLoop`: the loop that `accept_tls(_optional)` spawns, with the mode it was started in and the builder's `max_pending_accepts` as its ceiling. | The loop's variables stay in their initial state until `server = "running"`. `LoopOf(n)` instantiates `AcceptLoop` with ceiling n, and a loop step is taken under the n the builder holds. |
| `AcceptLoop` + `MCAcceptLoop` | The accept loop, the per-connection tasks, the consumer of the channels, and `request_shutdown`. `MCAcceptLoop` starts the loop directly, for the two violation runs about the ceiling and sniffing. | See the list below. |
| `AptRepository` | Pure operators over repository records: `is_referenced_repository`, the `standard_repositories` loop, `suite_variant`, `check_suites`, `origin_from_uris` with `host_from_uri`, `check_uris` and `check_repositories`. | A URI is its scheme, host labels, path and trailing slashes; a suite is its parts split before `-` and `/`; an info keeps path, index, kind and what its message is about. |
| `AptRepositoryFile` + `MCAptRepositoryFile` | Writer threads in worker processes running `parse` and then `write`; edits by other programs; crashes with restart (a new pid); `repositories()` as a concurrent actor; `standard_repositories` and `check_repositories` on its result. | See the list below. |
| `AcmePluginStore` | The abstract plugin store: every call takes effect at one instant, and an update carrying a digest applies only to the configuration that digest was read from. | `store`, `seen`, `pending`. |
| `AcmePlugins` + `MCAcmePlugins` | `list_plugins`/`get_plugin`, `add_plugin`, `update_plugin` and `delete_plugin` run by concurrent workers: checks before the lock, `lock_plugin_config`, `plugin_config`, the checks in code order, the change in memory, `save_plugin_config`, and every error return. | It refines `AcmePluginStore`. Each worker's pending request maps to `pending`. |

**AcceptLoop state:**

- `strong` is `Arc::strong_count(&accept_counter)`;
- `task[c]` is where connection c's task is;
- `token[c]` is whether that task holds a clone of the counter;
- `arrived[c]` and `lastPeek[c]` track the client's hello and the last peek;
- `route[c]` is the sniffing result;
- `secureQ` and `insecureQ` are the two channels;
- `consumerGone` means the receivers were dropped.

**AptRepositoryFile state:**

- `dir` maps names to inodes and `data` maps inodes to contents;
- per writer: `pc`, `digest`, `repos`, `fd` and `result`;
- ghost versions record what each writer read, checked and replaced;
- the listing holds `lsTodo` (the `read_dir` snapshot), `lsFiles`, `lsErrors`,
  `lsDigest` and `lsStandard`.

**How the Apt model represents repositories.** A content is:

- the initial files;
- another program's edit;
- a writer's edit (a writer, a process incarnation).

`RepositoriesOf` gives each content the repository records that the
`AptRepository` operators read:

- the initial files: Debian main with a cached `Origin`, the security
  repository with `bookworm-security`, and pve-enterprise enabled;
- the edit: Quincy with the old component `main` and a trailing slash, a
  `deb-src` line, Reef on the older `bullseye`, the security repository with
  the pre-bullseye suffix `/updates`, the next release `trixie`, and a mirror
  using `stable` whose second URI is Debian's;
- a handler's edit: pve-enterprise disabled and pve-no-subscription added.

`APTRepositoryHandle::info` (`standard.rs`) and `DebianCodename`
(`proxmox-apt-api-types`) are not in this tree; their tables are taken from
the specification. A listing's contents decide what it reports, so
`StandardOf`, `InfosOf` and the documented results are defined over the
content sequences of at most three listed files. TLC evaluates them at each
use, so `ListingAsDocumented` compares them in the states where every
handler has returned: a completed listing never changes afterwards, and
every handler returns (a crash restarts its writers, which then run to the
end).

## 3. Runs

| Run | cfg | Expect | Checks |
|---|---|---|---|
| `wsframe_parse` | `WsFrameParse.cfg` | pass | `RoundTrip`, `MaskMatchesNaive`, `ParseAgreesWithReference` (against an RFC 6455 reference written independently), `NeedNeverOvershoots`. |
| `wsreader` | `WsReader.cfg` | pass | `ControlIntact`, `ArrivalOrder`, `CleanEof`, `CopyTerminates` (liveness), over 4 scripts, chunks of 1–3 bytes and caller buffers of 2 or 8 bytes. |
| `wsreader_mask` | `WsReaderMask.cfg` | violation | `DataIntegrity`: a masked frame returned in two chunks is unmasked with the mask phase restarted at each chunk. |
| `accept_ceiling` | `AcceptLoopCeiling.cfg` | violation | `RejectOnlyAtCeiling`: the second connection is rejected while only one handshake is in flight. |
| `accept_sniff` | `AcceptLoopSniff.cfg` | violation | `SniffMatchesSpec`: `16 03` followed by the zero padding of the peek buffer is taken as a TLS record. |
| `apt_write` | `AptWrite.cfg` | pass | `NeverTorn`, `TmpCleanedUp`, `ListingAsDocumented` (the standard repositories' status and the infos of `check_repositories`, with the code's kind strings translated to the doc's names, on bookworm and on hosts of the edge releases buster, bullseye and trixie). The instance has two writers in two processes, one external edit and one crash. |
| `apt_shared_tmp` | `AptSharedTmp.cfg` | violation | `NeverTorn`: two threads of one process share `<name>.<pid>`. |
| `apt_lost_update` | `AptLostUpdate.cfg` | violation | `NoLostUpdate`: an edit between the digest check and the rename is overwritten while `write()` returns Ok. |
| `wsrelay` | `WsRelay.cfg` | pass | `RelaySpec` (refinement of `Relay`), and `PingAnswered` (liveness). |
| `wsrelay_utf8` | `WsRelayUtf8.cfg` | violation | `TextFramesUtf8`: in text mode, the first byte of a two-byte UTF-8 character is sent alone as a Text message. |
| `server` | `Server.cfg` | pass | From the two builders' `new()` to serving. It checks, with up to two calls on each builder, `PanicOnlyOnMismatch` and `AcceptorConsistent` (action properties of the `build()` step). Then, in both modes, under the ceiling the caller left (1024, 2 or 1), with a TLS and an HTTP client, it checks `AdmissionBound` (at most `max_pending_accepts` connections in flight, the spec's ceiling) and `TokensReleased` (liveness). |
| `acme_plugins` | `AcmePlugins.cfg` | pass | `StoreRefined`: the implementation refines `AcmePluginStore`. There are two workers and up to five calls, with every error path. |

Each module also has a `TypeOK`.

### Findings

The violation runs show:

- **websocket.rs:556 (`wsreader_mask`):** `poll_read` restarts the unmasking
  phase for every chunk of a frame.
- **websocket.rs:680 (`wsrelay_utf8`):** in text mode, each backend read
  becomes one whole Text message, so a UTF-8 character split between two
  reads yields Text messages that are not UTF-8 (RFC 6455, 5.6 and 8.1).
- **connection.rs:283 (`accept_ceiling`):** the ceiling is one below the
  specification's.
- **connection.rs:454 (`accept_sniff`):** sniffing reads the zero padding of
  the peek buffer.
- **file.rs:321 (`apt_shared_tmp`):** threads of one process share the
  temporary file.
- **file.rs:286 (`apt_lost_update`):** the digest check and the change that
  follows are not atomic. TLC's trace takes the `remove_file` path
  (file.rs:297-299): a writer whose last repository was removed checks the
  digest, another program replaces `sources.list`, and `remove_file` deletes
  the new file; the rename at 331 loses an edit the same way.

Observations from modelling that need no run:

- `set_cipher_suites` and `set_cipher_list` are stored and never read by
  `build()`, which always uses `mozilla_intermediate_v5`.
- Between `certificate()` and `certificate_paths_pem()` the last call wins,
  where the specification states a fixed precedence.
- The doc comment of `check_repositories` (mod.rs:48-51) names the info
  kinds `warnings` and `badge`; the code emits `warning` (file.rs:390-419)
  and `origin` (file.rs:453). `ListingAsDocumented` translates the names
  (`DocKindName`) and checks which repositories get which kind.
- `max_pending_accepts(1)` admits no connection at all, and
  `max_pending_accepts(0)` panics at start-up.

### Why the bounds are enough

- **Frame codec:** the lengths sit on every boundary of the code:
  - 32 bytes, for the u32 path, with all four alignments;
  - 125, 126 and 127;
  - 65534, 65535 and 65536.
- **Reader:** every segmentation of each script is explored, and a 2-byte
  buffer splits every payload.
- **Server:** `KeepAlives` holds only the default 120, because the loop does
  not read the keep-alive time (it sets a socket option); `debug` only gates
  logging but keeps both values. The ceilings 1024 and 2 behave alike for two
  clients. 1 rejects every connection.
- **Accept loop:** two clients with a ceiling of one in-flight handshake reach:
  - rejection;
  - a full channel;
  - a task blocked on send;
  - a lost consumer;
  - shutdown at any point;
  - every sniffing outcome.
- **Apt:**
  - Each writer's process is named after the writer, so exchanging the
    writers exchanges their processes and `apt_write` uses symmetry over
    them.
  - `apt_write` fingerprints `GhostFreeView`, the state without the ghosts
    `version`, `seen` and `atRename`, which only `NoLostUpdate` reads and no
    action tests.
  - Two processes with one crash reach a temporary file left behind.
  - The external edit lands between check and rename.
  - The listing interleaves with both writers.
  - `sources.list` is listed first and enables pve-enterprise, while a
    writer's file disables it. So a handle is referenced by an enabled line
    and by a later disabled one, which is the case the `Some(true)` skip
    exists for.
  - The repositories cover every branch of `check_suites` (keyword, older,
    next and newer release, both security suffixes, `deb-src` skipped) and
    of `check_uris` (cached origin, first official URI, none). The edge
    releases put each repository on both sides of `>= Bullseye`, and make
    `trixie` both the next release and the newest, whose `next()` is
    `None`.
- **ACME:** two workers with five calls:
  - interleave a read, an update with that digest, and a concurrent save;
  - fail at the lock, the read and the save;
  - cover the add, update and delete refusals.

### Fairness

- **Reader:** weak fairness on the reader's steps, because `copy` polls until
  0 or an error. A connection reset is the peer's choice and is not fair.
- **Accept loop:** weak fairness on every task step and on both timeouts,
  because tokio polls spawned tasks and fires its timers. The consumer is
  weakly fair because hyper keeps accepting. Clients, setup errors, shutdown
  and consumer loss are environment choices and get no fairness. `Server`
  gives the same fairness to the loop's steps, which exist only after
  `accept_tls(_optional)` has spawned the loop. The builders' calls get no
  fairness, because a caller may stop configuring at any point.
- **Relay:**
  - Weak fairness on `ws_future` and on completing a sink write.
  - Strong fairness on each branch of the random `select!`. Tokio's `select!`
    picks a ready branch at random, so a branch that is ready infinitely often
    is eventually taken.
- **Apt and ACME:** only safety is checked, so no fairness is
  assumed.

## 4. Mutants

Each property of a passing run has a mutant in `PROJECT.json`. The mutant is an
operator defined just before the definition it replaces, and models a plausible
bug in that code. Examples:

- the mask not counted in `header_len`;
- a send without its guard;
- the admission ceiling check dropped;
- a handshake without its timeout;
- a temporary name without the pid;
- `standard_repositories` without the `Some(true)` skip (the last line wins,
  so the result depends on `read_dir` order);
- `check_suites` testing `codename > current` before `next()`, which warns
  about the release an upgrade is prepared for;
- a lock taken while another worker holds it.

## 5. Not modelled

- **Accept loop:** the rate limiter, TCP options and debug logging change
  nothing the loop reads. Certificate reload only replaces the context that
  later `Ssl::new` calls use.
- **WebSocket:**
  - the accept key (SHA-1 and base64) and the response builder are string
    conversions;
  - `poll_write` is modelled only as the relay uses it.
- **Apt:**
  - parsing a repository line, `basic_check`, `set_enabled` (which changes the
    options of `.sources` files) and reading the cached InRelease file in
    `get_cached_origin` are string and file processing; the cached origin is
    a field of the repository record;
  - `get_standard_repository` only builds a repository from a handle;
  - a suite whose base is no known codename skips the security-suffix test
    (file.rs:403). No repository of the model has one, and this is listed
    as a hazard without a property.
- **ACME:** `modify_cfg_for_api` reformats a section config entry for output,
  and changes no state.
- **The other crates** have no concurrency or protocol state that a model
  checker would add to a unit test:
  - the HTTP sync client, product config and system config API;
  - login errors, RRD and the time parser;
  - the API macro, the notification renderer and procfs.

  `PROJECT.json` lists them as `not_modelled`, with the reason.
