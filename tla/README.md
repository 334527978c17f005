# TLA+ models of remotefs

remotefs is a FUSE client and a server that talk over TLS. Every message is a
frame: a 16-byte `MsgHeader {id, len}`, then `len` bytes of a serialized
`AnyMsgT`. These modules model the concurrent core of that exchange, as TLC
checks it.

## System inventory

| Part | Source | State | Operations |
|---|---|---|---|
| Transport reactor | `networking/src/AsyncSslTransport.cpp` | `_to_send`, `_stopped`, `_failed`, the send buffer, and the read state (`reading_msg`, `cur_read`, `msg_len`, `msg_id`, `read_buf`) | `send_message`, `stop`, and the `thread_entry` loop: dequeue/send, the read loop, poll, and the catch that runs `handle_fail` |
| Client correlator | `AsyncSslClientTransport.{hpp,cpp}` | `_msg_id`, `_promises` | `send_msg`, `handle_message` (resolve and erase, or drop), `handle_fail` (`stop` then `exit`) |
| Server dispatcher | `AsyncSslServerTransport.cpp` | `_msgs`, `_msgs_mutex`, `_msgs_condition` | `handle_message`, `handle_fail`, `get_msg` |
| Connection driver | `Server.cpp`, `Client.cpp` | `ClientCtx` (`client_name`, transport, `ctx_mutex`) on the connection thread's stack | `Server::run`: the accept loop over one descriptor table; `process_req`: a loop on `get_msg` that spawns detached `msg_proc` workers, then `close(conn_fd)` and `~ClientCtx` |
| Request handler | `remotefs/src/FsServer.cpp` | `client_name`; the exported tree, shared by every worker | `handle_message`: a double-checked login gate, then `handle_auth`, or a visitor over the request types, each a few separate filesystem calls |
| FUSE adapter | `remotefs/src/FsClient.cpp` | none of its own | the main thread's login, the `keep_alive` thread, and FUSE callbacks, all through `call<R>` |
| Codec, ACL, Options, Logger, SHA | `utils/`, `remotefs/src/Acl.cpp` | none shared between threads | encoding and decoding, `authorize`, `authorize_path` |

How the parts interact. Client threads call `send_msg`, which takes an id, registers a promise and queues the frame. The client reactor writes the frame. The server reactor reassembles it and appends it to `_msgs`. The connection thread pops it with `get_msg` and spawns a detached worker. The worker runs `handle_message` and queues its reply with `send_message`. The server reactor writes the reply. The client reactor reassembles it and resolves the promise with the same id.

The concurrency on a connection:
- each side has its reactor thread;
- the server has its connection thread and N workers;
- the client has the main thread, `keep_alive`, and the FUSE threads.

## Modules

**`RemoteFsRpc`** models one whole connection at frame level.
- Correlator:
  - `Register` is the locked part of `send_msg`: `id = _msg_id++` (`IssuedId`, `IdCounterNext`) and `emplace`.
  - `Enqueue` is `send_message`.
  - `ClientRecv` is the client's `handle_message`; `Erase` is its `_promises.erase`.
  - `ClientFail` is `handle_fail`, which exits the process.
- Calling threads:
  - `RequestOf` says what each thread sends: main sends a login, `keep_alive` a KeepAliveReq, and a FUSE thread a filesystem request.
  - `MayCall` says FUSE runs only once the login has returned.
  - `Return` is `call<R>` checking the reply type.
- Reactors: they are reduced to moving the head frame (`ClientSend`, `ServerRecv`, `ServerSend`). Their byte level is `FrameReceiver`.
- Server:
  - `Dispatch` is `get_msg` followed by spawning a worker.
  - The worker is split at its synchronisation points: `WorkerCheck` is the unlocked `if (!client_name)`, and `WorkerLock` takes `ctx_mutex` and checks again.
  - `WorkerAuth` is `handle_auth`. `authorize`'s verdict on the client's credentials is `credsOk`. It is chosen in `Init` and never changes: the client's `--username` and `--password` are fixed, and the users file is loaded once. `ReleaseCtxLock` drops the lock guard.
  - `WorkerServe` is the visitor. Each filesystem request's outcome is "reply" or "error", which abstracts the ACL and the filesystem.
  - `WorkerSend` is `send_message` of the reply.
- Payloads are a message kind plus a ghost field `call` that names the client call they belong to.

**`RpcCalls`** is the abstract spec of what the client correlator promises its callers.
- Each client thread is `idle`, `pending`, `resolved` or `finished`. Its actions are `Issue`, `Answer` (with a reply naming the call, of a kind its request allows), `Return` and `Crash`; a failed login's `Return` ends the process.
- `RemoteFsRpc` instantiates it as `Rpc`. `CallState` maps `registered` and `waiting` to `pending`, and `alive` is `up`.
- `Register` is `Issue`, a `ClientRecv` that finds its promise is `Answer`, `Return` is `Return` and `ClientFail` is `Crash`. Every other step stutters.

**`ServerConnection`** models the threads of one accepted connection on the server, with the condition variable modelled step by step.
- `get_msg` has four steps:
  - `ConnLock`;
  - `ConnCheck`, which evaluates the predicate; on a failure it returns nullptr, otherwise it pops the head and spawns a worker;
  - `ConnWait`, which unlocks and sleeps atomically;
  - `SpuriousWakeup`.
- Reactor: `Handshake`, `Deliver` (locked append plus `NotifyAll`), `Transmit`, `Fail` (the catch sets `_failed`) and `HandleFail` (notify without the mutex).
- Reactor teardown: `HandleFail` notifies, then `Shutdown` is the `SSL_shutdown` on `_fd` that follows the catch block.
- Connection teardown, in the order the lambda runs it: `ConnClose` (`close(conn_fd)`, the counter and its notify), then, as `ClientCtx` (declared before the `try`) is destroyed, `ConnStop` (`~AsyncSslTransport` calls `stop`) and `ConnJoin`, after which `ClientCtx` is gone.
- Workers: `WorkerHandle` and `WorkerSend`, the worker's two uses of the context.

**`ServerDriver`** models the server process across connections: `Server::run`'s accept loop, and each connection's resources, drawn from one descriptor table.
- `owner` maps each descriptor number to the connection holding it. `accept` and `pipe` take the lowest free numbers, as POSIX requires, so a number that is closed is the next one handed out.
- `Arrive` is a client's `Client::run`: `socket` and `connect`. The connection then waits in the listen backlog until `Accept`.
- `Accept` is `poll_wait` plus `accept` plus `process_req`'s count. When no number is free, `accept` fails with EMFILE and the loop polls again; that changes nothing, so it is not a separate step.
- `Construct` is the transport constructor's `pipe()`. On failure, which is unchecked, the uninitialised array may hold any number.
- `Dispatch` and `WorkerDone` cover the detached workers. `Fail` and `Shutdown` are the reactor's catch and `SSL_shutdown`.
- `Leave` is `close(conn_fd)` and the count; `Stop` and `Join` are `~ClientCtx`. The pipe is never closed.
- `ServerConnection` has the finer interleaving inside one connection. Here the failure and its notify are one step.

**`FrameReceiver`** models the reactor's read loop at byte level.
- The peer's stream is `NumFrames` frames back to back. Records of at most `MaxRecord` bytes arrive (`Arrive`), and `RecordEnd` cuts them in the chosen `layout`:
  - `per_frame`: one `SSL_write_ex` per frame, which is what `thread_entry`'s sender does;
  - `stream`: several frames in one write;
  - `byte`: one-byte records.
- `Read` is one `SSL_read_ex` call:
  - `ReadRequest` is the `msg_len` argument.
  - `ReadCount` is `read_now`, which is bounded by the request and by the current record.
  - When a phase completes, `Read` runs `HeaderDone` or `PayloadDone`.
- A write past `read_buf` is recorded as `fault = "overrun"`, and the model stops there.
- The receive direction is shown to implement `FrameChannel` (`Inbound == INSTANCE FrameChannel WITH ...`). A frame enters the channel's queue once its last record has arrived (`Arrived`). It leaves when `handle_message` gets it, as `FrameMsg(i)`: id `i`, with its own payload bytes. The channel is always open, because the model has no failure.

**`Reactor`** models one `AsyncSslTransport` from its outbound side.
- Senders:
  - `SendLock` is `send_message`'s lock and `push_back`.
  - `SendWrite` is the pipe write, made while the mutex is still held (`WakePipe` blocks while the pipe is full), followed by the unlock.
- Stopping: `Stop` sets `_stopped` and `StopWake` writes the pipe; these are the two steps of `stop()`.
- The reactor thread follows `thread_entry`:
  - `Handshake`, or `HandshakeFail`, which covers a `poll_wait` timeout;
  - `ReactorExit` (the `while (!_stopped)` test);
  - `ReactorDequeue` (`TakeNext` under the mutex) or `ReactorResume`;
  - `Write`, one pass of `while (sending)` (a partial `SSL_write_ex`, or `WANT_WRITE`);
  - `Read`, the read loop, which drains the peer's frames;
  - `PollWake`, which reads one pipe byte if there is one, or `PollTimeout`;
  - `IoError` and `HandleFail`, the catch block.
- The peer sends frames (`PeerSend`) and drains a congested socket (`PeerDrain`).
- **`FrameChannel`** is the abstract spec of what a direction of the transport promises: an enqueue order, a wire, and an open flag. `FrameReceiver` instantiates it for the receive direction.
  - `Reactor` instantiates it with `Channel == INSTANCE FrameChannel WITH ...`.
  - The refinement mapping takes the channel's queue to be the frame in `to_send_buf` followed by `_to_send`.
  - The channel is open until the reactor fails or exits.

**`Codec`** models `utils/include/Serialize.hpp` with the structs that `SerializableStruct.hpp` and `Messages.hpp` declare.
- A type is a record giving its shape, matching Serialize's `if constexpr` chain. The shapes are struct, monostate, pair, enum, one byte, integer, variant, byte vector and container.
- `AnyMsgAlts` lists the 33 alternatives of `AnyMsgT` in declaration order, because the order fixes the index on the wire.
- Encoding:
  - `Encode` is `serialize`; `EncodeAll` is `SERIALIZE_FIELD` over the fields; `EncodeEach` is the container's element loop.
  - `Widen` is `htobe64(static_cast<uint64_t>(v))`. An integer value is the sequence of its bytes, so sign extension and truncation are byte operations.
- Decoding:
  - `Decode` is `deserializeOpt`; `DecodeFields` is `READ_FIELD`, where a failing field throws; `DecodeVar` is `deserializeVar`.
  - `DecodeContainer` reads `<count> 'b' elements 'e'`.
  - The checks the code makes have their own operators: `IntFits` (8 bytes remain), `BytesFit` (the byte-vector copy fits), `VarIndex` (`*index - 1`) and `Trunc` (`static_cast` to a narrower type).
  - A result is `[ok, val, pos]`, where `pos` is the iterator `in` when the call returns or throws.
- The module has no transitions. Each initial state is one call of `deserialize<T>`. Its input is one of: the exact encoding of a bounded value, a strict prefix of that encoding (a truncated frame), or the encoding with one byte overwritten (a corrupted count, marker, index or ordinal).

**`Acl`** models `ACL::load` and `ACL::authorize_path` (`remotefs/src/Acl.cpp`), and how `FsServer` uses them.
- `Lines` are the token lists that `split(line, ' ')` can produce.
- `LoadLines` is the `acl_lines` loop: empty lines are skipped, and `emplace` keeps the first rule for a prefix.
- `AuthorizePath` is the single pass with a running best match (`Better` is the `>=` at line 51). When no rule matches, or the matching rule names no users, everyone is allowed.
- `Resolved` is what `root.concat(arg.path)` names once the filesystem has processed `.` and `..`. The result "out" means above the served root.
- Like `Codec`, the module has no transitions. Each initial state is a request: an ACL file of up to `MaxLines` lines, a user, and a path.

**`Login`** extends `Acl` with credential checking: `ACL::authorize` and the users-file half of `ACL::load`.
- A users-file line is a token list: a blank line, a lone name, or a name and a hash token.
- A hash token is the lower-case hex of SHA-256 of a password (`HexOf`, which is what `chars_to_hex` produces), the same digest in upper case, or a token of another length. SHA-256 is assumed to have no collisions over the model's passwords.
- `LoadUsersLines` is the `users_lines` loop. A line that is not two tokens, or whose hash is not 64 characters, throws, and `FsServer::run` then never starts the server. `emplace` keeps a name's first entry.
- `Authorize` is `authorize`.
- One login request per state: a users file of up to `MaxUserLines` lines, a name and a password (`LoginInit`).

**`ParseIp`** models `parse_ip` (`FsServer.cpp:23-41`), which `FsServer::run` applies to the `--ip` option before `Server::run` binds the address.
- The option text is a sequence of one-character strings, because the property is about the conversion itself.
- `GetlineParts` is the `std::getline(iss, part, '.')` loop. A trailing `.` yields no empty part, but `..` yields one.
- `ParseLoop` is the loop body. A fifth part throws, checked before the part's emptiness. An empty part is skipped. Otherwise `strtol` (`Strtol`) is cast to `unsigned char`, keeping the value mod 256.
- `ParseIpText` gives the four bytes of `ip_res` in memory order. A byte no iteration wrote is `Uninit`.
- The reference is independent of the parser: `DottedQuad` prints four octets the way `inet_pton` accepts them, and `Client::run` uses `inet_pton` for the same option.

**`FsAccess`** extends `Acl` with the access decision of each branch of `RemoteFsServer::handle_message`'s visitor (`FsServer.cpp:83-280`).
- A request is a kind and its path arguments: `<<path>>`, or `<<path, newPath>>` for `RenameReq`.
- `CheckedArgs(k)` lists the arguments a branch passes to `authorize_path`. `Getattr`, `Readdir` and `Statfs` check none, `Rename` checks both and the other kinds check `path`.
- `Touched(k, ps)` is what the branch hands to the filesystem as `root.concat(...)`: every argument when all its checks pass, otherwise nothing (`ErrorReply`).

**`FsOps`** models what the visitor's branches do to the exported tree when several workers run them at once. `process_req` gives every request its own detached thread, so this happens whenever a client has calls in flight on several FUSE threads, or several clients are connected.
- A tree maps each path (one or two names) to a node: absent, a directory, or a file with its size. `Trees` are the trees whose every entry has a directory as its parent.
- Each branch is a step operator, `GetattrStep` ... `RenameStep`. It maps a request, a position in the branch and a tree to the set of outcomes of the branch's next filesystem call: a new position (or `"done"`), a tree and a reply. Each call (`exists`, `is_directory`, `is_regular_file`, `stat`, open and read, open and write, `ofstream`, `create_directory`, `remove`, `resize_file`, `rename`) is one atomic step, and another worker's step can fall between any two.
- The calls keep their libstdc++ and POSIX outcomes. `remove` of a missing path returns false and the branch replies 0. `create_directory` onto a directory returns false, and onto a file it throws. An `fstream` that fails to open makes `WriteReq` reply `-1 - off`. A read that reaches past the end makes `tellg` return -1, and the resize then throws. A `stat` that fails leaves `buf` uninitialised, which is modelled as a choice between a garbage size and an exception from `checked_cast`. Every exception becomes the `ErrorReply` of the catch block.
- `RenameTarget` is the `newPath` the code computes. `root.concat` appends in place, so `root` already ends in `arg.path` when `newPath` is formed, and the target lies under the source. `rename` then fails with `ENOTDIR` or `EINVAL`, so no rename ever succeeds (see "Seen" below).
- One action per request kind (`CreateReq(w)` and the others) performs worker `w`'s next step through `Serve`. `fs0` records the tree the workers started from.
- File contents, modes, times, and the ACL check are left out; `FsAccess` has the ACL. `ReaddirReq`, `UTimensReq` and `StatfsReq` are one call each and change nothing that is modelled.

**`FuseRead`** puts the client's `rfsRead` on top of `ReadStep`.
- `RfsRead` is `call<ReadReply>` and `rfsRead`. An `ErrorReply` throws, and the catch returns `-EIO`. Otherwise the result is `min(ret.data.size(), size)`.
- `ReadCount` is the reference: the count `read(2)` promises for a regular file, that is, the bytes from the offset to the end of file, at most the count asked for.
- `MCFsOps` instantiates it with one worker (`MCReadReqs`), so the file does not change during the read.

`MCRemoteFsRpc` instantiates `RemoteFsRpc` with one FUSE thread as a model value. `MCAcl` and `MCFsAccess` give `Acl` its rule prefixes, which are strings, and so cannot be written in a cfg. The states of `MCAcl` are of four kinds: a path request, a login request, an `--ip` text, or one `deserialize` call of `Codec` (`DecodeInit`). Each kind carries only the input it consults. The others are left at a fixed value: empty, or, for the decoder, the exact encoding of `LoginReply{}`. The four sets of calls therefore add instead of multiplying, and one run checks all of the system's stateless functions.

## Runs

| Run | Expect | What it shows |
|---|---|---|
| `rpc` (MCRemoteFsRpc.cfg) | pass | See below. |
| `server_conn` (ServerConnection.cfg) | pass | `DispatchInArrivalOrder`: `_msgs` is consumed FIFO, each frame exactly once. `ArrivalsDispatched`: a frame that arrives on a healthy connection reaches a worker. |
| `server_conn_wakeup` (ServerConnectionWakeup.cfg) | violation | `FailureEndsConnection`: `HandleFail`'s notify, sent without the mutex, lands between `ConnCheck` and `ConnWait`. The connection thread then sleeps forever and the connection is never closed. |
| `server_driver` (ServerDriver.cfg) | violation | `ResourcesOutliveUsers`: every thread of a connection uses only resources that are still its own (`ClientCtx`, `conn_fd`, the pipe). TLC shows this in 7 steps with two clients. 1. Client 1's reactor fails. 2. `Leave` closes fd 2 before the reactor's `SSL_shutdown`. 3. `Accept` hands fd 2 to client 2. The old session's close_notify then goes to the new client's socket. Two more routes break the same invariant; each was checked alone. A worker still running after `Join` (a use after free of `ClientCtx`). Connections run one after another with a table of 7: the third client's unchecked `pipe()` fails on the descriptors leaked by the first two, and its reactor then polls another client's pipe or the listening socket. |
| `frames` (FrameReceiver.cfg) | pass | `InboundSafe`: the read loop refines `FrameChannel!Spec`, with per-frame or one-byte records. The frames handed to `handle_message` are exactly the peer's frames, whole, in order, each once. `InboundLive` (`FrameChannel!LiveSpec`): every frame that has fully arrived is delivered without the peer sending more. |
| `frames_batched` (FrameReceiverBatched.cfg) | violation | `FramesIntact` with records that span frames (lengths `<<2,1,1>>`). A header is read, then a short payload read, then a read of `msg_len` more bytes at `read_buf + cur_read`, which overruns `read_buf`. |
| `stateless` (MCAcl.cfg) | pass | `RoundTrip`: decoding exact encodings gives back the value and consumes every byte. `TruncationRejected`: no strict prefix decodes. `InBounds`: no decode of exact, truncated or corrupted input reads past the buffer. `LongestRuleDecides`: `authorize_path`'s scan over the rule map (`std::map`, so in key order) decides exactly as the longest matching rule does. `LoginMatchesUsersFile`: `load` accepts exactly the well-formed users files. `authorize` then admits a login exactly when the first line naming the user carries the password's lower-case hex digest. A later line for the same name, or an upper-case digest, never admits it. `ParseIpAcceptsDottedQuads`: every dotted quad `inet_pton` accepts is parsed by `parse_ip` into its four octets in network order. |
| `fs_access` (MCFsAccess.cfg) | violation | `AccessConfined`, over every path-taking request kind. A request that passes its checks can still touch a path outside the served root or outside its user's rule, in two ways. (1) `"/.."` passes `authorize_path` on its raw text, yet `root.concat(path)` resolves above the root. (2) `GetattrReq`, `ReaddirReq` and `StatfsReq` never call `authorize_path`, so a user whom a rule on `"/A"` shuts out still stats and lists `"/A"`. TLC's trace combines both: a `GetattrReq` of `"/.."` with an empty ACL file, which no check stops and which stats the parent of the root. Cutting `PathKinds` to `{"Open", "Read"}` gives the first case alone, an `OpenReq` of `"/.."`. A `RenameReq` touches only its source path: its target is built as root+path+newPath, under a regular file, so `rename(2)` fails with ENOTDIR. |
| `reactor` (Reactor.cfg) | pass | `PipeBacklogBounded`: while the reactor runs, unread pipe bytes never exceed `PipeCredit`. `PipeCredit` counts the messages in `_to_send` whose byte is written, plus one for a message dequeued since the last poll, plus one for stop's byte. Without the `+1` for the dequeued message the bound fails in 5 steps, so it is tight. `ChannelSafe`: the reactor refines `FrameChannel!Spec`, so frames reach the socket whole, in `send_message` order, each once. This holds across partial writes, a congested socket, stop and failure. `StopWakesReactor`: after `stop()` the reactor exits without the timeout. |
| `fs_race` (MCFsOps.cfg) | violation | `FsSerializable`: once every worker has replied, the tree and the replies must be those of some one-at-a-time order of the same handlers (`SerialRuns` replays them with the recursive `Finish`). TLC breaks it in 4 steps from an empty tree. Two workers serve `CreateReq "/a"`; both `exists` calls see nothing, both `ofstream`s open the file, and both reply 0. In either serial order the second would reply -1. With the requests narrowed to one kind, the same check catches `Unlink`/`Unlink` and `Rmdir`/`Rmdir`, where both reply 0. A `Getattr` that races an `Rmdir` also reaches a reply built from the uninitialised `stat`. Each was checked separately. |
| `fuse_read` (MCFuseRead.cfg) | violation | `FuseReadShort`: a FUSE read returns the count `read(2)` promises. TLC breaks it in 2 steps. A read of 2 bytes at offset 0 of an empty file makes `ifs.read` set failbit, so `tellg` returns -1 and the resize throws. `rfsRead` returns `-EIO` instead of 0. Every read that reaches past the end fails the same way, and FUSE asks for whole pages, so reading the tail of most files fails. `rfsRead` itself takes `min(ret.data.size(), size)` (`FsClient.cpp:112`), so the client was written expecting a short reply. |
| `reactor_stall` (ReactorStall.cfg) | violation | `ChannelLive` (`FrameChannel!LiveSpec`): 1. two messages are queued, with two pipe bytes; 2. the first frame sticks on `WANT_WRITE`, and two loop iterations read both bytes; 3. the frame completes. The loop then goes to `poll` without dequeuing, and the second message waits with nothing to wake the reactor. Spec §4.1(b) says a finished write loops back to dequeue. |

The `rpc` run checks four properties (`TypeOK` besides these):
- `RpcSafe` (`RpcCalls!Spec`): every step of the client threads is a step of the abstract `RpcCalls` spec. A future is resolved once per call, with the reply to that call, of a kind its request allows, whatever order the workers reply in. FUSE calls start only after a successful login.
- `PromiseTableExact`: `_promises` holds exactly the outstanding calls.
- `LoginDecidedByCredentials`: main's login gets `LoginReply` exactly when `authorize` accepts the credentials. `keep_alive_thread` starts before the login is sent (`FsClient.cpp:288`). Keep-alives can therefore reach the gate first, take `ctx_mutex`, and be refused, in any order with the login's worker. The run covers those orders.

Every property of a passing run has a mutant in PROJECT.json: a plausible code bug, written as an operator next to the definition it replaces, that TLC shows violating the property. The mutants are:
- post-increment written as pre-increment;
- the counter not incremented, so ids repeat;
- the erase missing;
- the gate test inverted (by refusing the login itself, it breaks `LoginDecidedByCredentials`);
- `_msgs` popped LIFO;
- the notify missing from `handle_message`;
- a read assumed to fill the request;
- `msg_len` not reset after a payload;
- the header's id and len swapped;
- the variant index used without the `- 1`;
- the integral branch's length check dropped;
- the byte-vector length check dropped;
- `>=` written as `<=` in `authorize_path`;
- the reactor taking the last queued message instead of the first;
- `poll` waking without reading its pipe byte;
- `parse_ip` throwing at the fourth part instead of the fifth;
- `stop()` without its pipe write.

## Bounds

**`rpc`**
- Threads: main (one login), `keep_alive` and one FUSE thread, with 2 calls each. That makes 5 ids, up to 5 concurrent workers, two callers with requests in flight at once, and a login racing a keep-alive.
- A second FUSE thread adds no new interleaving of the correlator. It also pushes the run past a few minutes.

**`server_conn`**
- 3 frames is enough for two frames to queue behind a busy connection thread, which is what a FIFO error needs, with the failure arriving at any point.

**`frames`**
- 3 frames of payload length 1 to 4, a header of 2 and records of 3. Frames are then shorter than, equal to and longer than a record, so both phases see short reads.
- The sizes are scaled down but keep the real ordering: a record is at least a header.

**`stateless`**, decode calls
- Strings and containers hold up to 2 elements, from the bytes 1 and 'e' (so content can look like an end marker).
- Integers take the values 0, 1, all ones and, when signed, the sign bit alone.
- Corruptions write 0, 1, 'b' or 255 over each byte in turn.
- The value types are LoginReq, LoginReply, GetattrReply, ReaddirReply, OpenReply and ReadReq, and AnyMsgT. AnyMsgT values come from 7 alternatives, the first and the last among them. Decoding always sees all 33 alternatives.

**`stateless`**, ACL, login and `--ip` calls
- 2 users and the nested prefixes `/`, `/A` and `/AB`, each with any subset of the users.
- Up to 2 ACL lines, so duplicate prefixes (first one wins) and nested rules both occur.
- Paths of up to 4 characters over `/ . A B`. These include `/AB`, which the string prefix `/A` covers, and `/..`.
- `--ip` texts: every string of up to 9 characters over `2`, `5` and `.`, 29,524 in all. These include quads with one- to three-digit octets (`2.2.2.222`), octets above 255 (`552`), empty parts, trailing dots, and three or five parts.
- Users files of up to 2 lines over the 2 users and 2 passwords. These contain a name given twice with different hashes (first one wins), blank lines, lone names, upper-case digests and short hashes.

**`fs_access`**
- As the ACL calls of `stateless`, but with paths of up to 3 characters, so `Rename`'s pairs of paths stay few. `/..` and `/A` still fit, so both the traversal and a rule on `/A` occur.

**`fs_race`**
- 2 workers and the names `a` and `b`, so there are 6 paths at two levels. The initial trees are all 361 trees over them with file sizes 0 and 1.
- Each worker takes one of 21 requests: every single-path kind on `/a` and `/a/b` (so the parent checks come into play), reads and writes of one byte at offsets 0 and 1 (inside the file, at its end, and past its end), truncation to 0 and 1, and renaming `/a` to `/b`.
- The whole space (about 450,000 states) is explored in 10 seconds, so the counterexample is a shortest one. Worker symmetry is sound: the property quantifies over all orders of the workers.

**`fuse_read`**
- One worker and files of 0 to 2 bytes. It reads "/a" at offsets 0 to 2, 1 or 2 bytes at a time, so reads fall inside the file, end at its end, cross it, and start at or past it.

**`server_driver`**
- 2 clients, a table of 7 numbers and one worker per connection. Both connections fit at once (1 + 3 + 3), so the first trace is the reuse and not exhaustion. A closed number can be reused, and a worker can outlive its connection.
- Exhaustion through the leak needs 3 clients one after another at this size. In the real process, with the default limit of 1024, it takes about 500 connections.
- Deadlock is not checked. Once every client has been served, the server blocks in `poll_wait(sock, -1)` for good, which is a legitimate end state.

**`reactor`**
- Two senders with 2 messages each, and frames of 2 bytes, so a frame can be part-written.
- The socket may fill after any write (`Congestion`), the peer sends one frame, and the pipe holds 5 bytes.
- With these bounds a frame sticks while others queue, the pipe is drained during a stuck write, and stop and failure land at every point of the loop.
- The pipe never fills at these bounds. `PipeBacklogBounded` says why it takes a flood at the real size: while the reactor runs, the pipe holds at most one byte more than `_to_send` has messages, plus stop's byte. A full 64 KiB pipe therefore needs 65535 queued messages.

## Fairness

- Every step of a thread that has started is weakly fair. These are OS threads, and the reactor is woken by poll.
- Not forced:
  - starting a call (a user may stop calling);
  - frame arrival (a peer may go quiet);
  - failures;
  - spurious wakeups.
- In `Reactor`, the poll timeout and I/O errors are not forced either. Its liveness properties therefore claim progress without any timer: "promptly", in the spec's sense. The peer's draining of a congested socket is weakly fair, because the peer is the other reactor, and it always polls for input.
- `RemoteFsRpc` has no fairness and its run checks safety only. Its frames leave through each side's reactor, and the `reactor_stall` run shows a queued frame can wait with no wakeup left. Weak fairness on `ClientSend` or `ServerSend` would assume a delivery the code does not guarantee.
- Liveness is therefore claimed only for work that has already begun. `FailureEndsConnection` fails even under this fairness: a sleeping thread has no enabled step, so nothing forces it to run.

## Not modelled

1. **Client keep-alive against the poll timeout.** This is a question of durations, not of interleavings. `keep_alive` sleeps 1 s between calls (`FsClient.cpp:274`). Each reactor's `poll` waits `timeout` seconds, 30 by default (`Options.h:52`), and the wait restarts on every loop iteration. An idle connection therefore sees a frame every second or so in each direction, far inside the timeout. A timed model would only restate this arithmetic. The models keep the timeout as an unforced failure (`ClientFail`, `PollTimeout`), which covers every moment it could strike.
2. **Login credentials inside the RPC model.** `WorkerAuth` uses one verdict of `authorize` for the whole run (`credsOk`). `LoginMatchesUsersFile` (`stateless` run) checks that verdict against the users file. The two are kept separate because composing them would multiply the RPC state space by the users files, and add nothing.

Seen while modelling, but not run:
- `keep_alive_thread` (`FsClient.cpp:269`) is a global `std::thread` that nothing joins or detaches. Three paths leave the client: `main` returning after `fuse_main`, a failed login caught in `main`, or `exit` from `AsyncSslClientTransport::handle_fail`. Each runs the static destructors with the thread still joinable, so every client exit ends in `std::terminate`.
- `RenameReq` (`FsServer.cpp:240-241`) never succeeds. `path = root.concat(arg.path)` appends to `root` itself, so `newPath = root.concat(arg.newPath)` is `root + path + newPath`, a path under the source file. `rename` fails, the exception becomes `ErrorReply`, and every FUSE rename returns `-EIO`. In `FsOps`, no reachable state has a `RenameReq` that replies 0; this was checked over the whole `fs_race` space. By the same in-place append, `ReaddirReq`'s `lexically_relative(root)` is taken against the directory itself, which by accident gives FUSE the bare names it wants.
- A `KeepAliveReq` that reached the server before the `LoginReq` is served once the login's worker has set `client_name` (`FsServer.cpp:73`, `FsClient.cpp:288`). The gate depends on when a worker runs, not on arrival order, contrary to spec §8. `RemoteFsRpc` reaches this state. The client's `keep_alive` sleeps a second before its first call, so in practice the login is first.
- `parse_ip` accepts what `inet_pton` rejects. An octet above 255 keeps its low byte (`552.2.2.2` binds 40.2.2.2). Fewer than four parts leave bytes of `ip_res` uninitialised, so the server binds an address partly made of stack contents. `ParseIpText` has both behaviours (`Uninit` marks the unwritten bytes). The run's property covers only the well-formed addresses.
- A blank line in the users file (for example two trailing newlines) makes `load` throw, so the server does not start. Blank lines in the ACL file are skipped. `LoginMatchesUsersFile` states this behaviour as the code has it.
- A `poll` interrupted by a signal (`AsyncSslTransport.cpp:186-187`) returns from the reactor thread without setting `_failed` or calling `handle_fail`. Senders would then queue into a transport nobody serves, and `get_msg` would wait forever. Neither program installs a signal handler of its own. On the client, FUSE's handlers for SIGINT, SIGTERM and SIGHUP may interrupt the reactor's `poll`, but only while the filesystem is being unmounted. `Reactor` has no such step.
- `Helpers::SSL_read_n` (`Helpers.cpp:64`) has the reactor's read-length slip (it asks for `n` bytes at `buf + nread`), but it is called only from commented-out code.
- `ChmodReq` (`FsServer.cpp:181`) tests the path the wrong way round. It replies `-1` when the path exists and calls `chmod` only when it does not, so every chmod of an existing file fails.
- The enum truncation in `Serialize.hpp:144`: the bytes `00 00 00 01 00 00 00 00` decode as `FileType::NONE`.
- The pipe-full deadlock in `send_message`: with a one-byte pipe, a blocked sender holds the mutex the reactor is waiting for.
- `AsyncSslServerTransport::stop()` never notifies `_msgs_condition`, and `get_msg` dereferences `_msgs.begin()` when it wakes stopped but not failed. This program calls `stop()` only from the destructor, after `process_req`'s loop has ended, so neither case is reachable here.

Out of reach or pure I/O: socket setup (bind, listen, connect), `Options`, `Logger`, `SHA`, the FUSE/stat field conversion, and the contents, modes and times of files.
