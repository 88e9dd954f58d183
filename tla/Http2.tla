------------------------------- MODULE Http2 --------------------------------
(* Connections and streams of the HTTP/2 service (nghttp2_wrapper) with the   *)
(* simple file service behind them: who opens, keeps and closes the           *)
(* descriptors and blocks of memory that a request needs, while handshakes,   *)
(* uploads, answers, resets and the end of connections come in any order.     *)
(* Frames are cut by nghttp2, which calls back; what it promises is marked    *)
(* external in the map.                                                       *)
EXTENDS Integers, Sequences, FiniteSets, FiniteSetsExt

CONSTANTS Conns,      \* connections
          Streams,    \* streams, of whichever connection begins them
          MaxFd,      \* descriptors of the process, 1 .. MaxFd; open fails beyond
          Paths,      \* kinds of paths asked for
          ArgSets,    \* words the service may be bound with
          FileLen,    \* length of a file, in the units of one read
          MaxValues,  \* bound on the pieces of data of one upload
          Faults,     \* whether open, opendir, read, write and submit may fail
          NoConn

ASSUME Http2Assumption ==
  /\ MaxFd \in Nat /\ FileLen \in Nat /\ MaxValues \in Nat
  /\ Paths \subseteq {"unbound", "unsafe", "missing", "special", "file", "dir", "index"}
  /\ ArgSets \subseteq SUBSET {"browse", "upload", "remove", "send_index"}
  /\ Faults \in BOOLEAN /\ NoConn \notin Conns

VARIABLES
  service,    \* h2esq_instance_bind_service: "none", "matched" (in the tree), "bound"
  flags,      \* flags of the service
  conn,       \* per connection: the callback that serves it, and its descriptor
  strm,       \* per stream: h2esq_stream_t with the context of the service
  fds,        \* the descriptors of the process and what they stand for
  heap,       \* blocks of memory of streams: contexts, and paths of answers
  disk,       \* content of the file every upload is named after: who wrote each piece
  crashed     \* a service without a class was called

vars == <<service, flags, conn, strm, fds, heap, disk, crashed>>

Fds == 1 .. MaxFd
NoFd == 0
Free == [kind |-> "free"]
NoCtx == [alloc |-> FALSE]
Hole == NoConn      \* what a write past the end leaves before it

\* SFS_FLAGS_ALLOW_REMOVE is the two bits of browsing and uploading.
FlagsOf(args) == {f \in {"browse", "upload"} : f \in args \/ "remove" \in args} \cup (args \cap {"send_index"})

\* sfs_new_ctx; fd, dir and post_fd are NoFd where the code has -1 or NULL.
NewCtx == [alloc |-> TRUE, fd |-> NoFd, dir |-> NoFd, post_fd |-> NoFd, post_state |-> "INIT", path |-> FALSE]

\* h2esq_create_stream: no service looked up. What follows last is history: the
\* pieces of data that came in, whether the upload was finished, whether somebody
\* else opened the same file meanwhile, what was sent, and whether the answer
\* could not be given once the service had a context.
NewStream == [st |-> "idle", conn |-> NoConn, path |-> "missing", post |-> FALSE, svc |-> FALSE,
              ctx |-> NoCtx, rst |-> FALSE, last |-> "VOID",
              values |-> 0, done |-> FALSE, mixed |-> FALSE, sent |-> <<>>, refused |-> FALSE]

Init ==
  /\ service = "none"
  /\ flags \in {FlagsOf(a) : a \in ArgSets}
  /\ conn = [c \in Conns |-> [cb |-> "none", fd |-> NoFd]]
  /\ strm = [s \in Streams |-> NewStream]
  /\ fds = [f \in Fds |-> Free]
  /\ heap = {} /\ disk = <<>> /\ crashed = FALSE

-----------------------------------------------------------------------------
(* Descriptors: the system hands out the lowest free number. *)

CanOpen(t) == \E f \in Fds : t[f] = Free
Lowest(t) == Min({f \in Fds : t[f] = Free})

\* Closing a number that is not open does nothing; one that has been handed out
\* again is closed under its new owner.
Close(t, S) == [f \in Fds |-> IF f \in S THEN Free ELSE t[f]]

Desc(kind, owner) == [kind |-> kind, of |-> owner, pos |-> 0]

(* What a callback works on; ok is FALSE when it returns an error. *)
World == [strm |-> strm, fds |-> fds, heap |-> heap, disk |-> disk, ok |-> TRUE]

Fail(w) == [w EXCEPT !.ok = FALSE]

\* sfs_new_ctx and h2esq_stream_set_app_ctx, when the stream has no context yet.
WithCtx(w, s) ==
  IF w.strm[s].ctx.alloc THEN w
  ELSE [w EXCEPT !.strm[s].ctx = NewCtx, !.heap = @ \cup {<<"ctx", s>>}]

-----------------------------------------------------------------------------
(* h2esq_stream_close and the end of a connection *)

CtxFds(ctx) == IF ctx.alloc THEN {ctx.fd, ctx.dir, ctx.post_fd} \ {NoFd} ELSE {}

\* sfs_on_stream_close, which is called once a service has been looked up, closes
\* the descriptors of the context and frees it with the path of the answer.
\* Mutant: the upload that was not finished stays open.
ClosedForButPost(x) == IF x.svc /\ x.ctx.alloc THEN {x.ctx.fd, x.ctx.dir} \ {NoFd} ELSE {}
ClosedFor(x) == IF x.svc THEN CtxFds(x.ctx) ELSE {}

FreedFor(x, s) ==
  IF x.svc /\ x.ctx.alloc
  THEN {<<"ctx", s>>} \cup (IF x.ctx.path THEN {<<"path", s>>} ELSE {}) ELSE {}

Gone(x) ==
  [x EXCEPT !.st = "gone", !.conn = NoConn, !.ctx = NoCtx, !.svc = FALSE, !.rst = FALSE,
            !.last = "VOID", !.path = "missing", !.post = FALSE]

\* h2esq_stream_close, for each stream of S.
StreamsClosed(w, S) ==
  [w EXCEPT !.fds = Close(@, UNION {ClosedFor(w.strm[s]) : s \in S}),
            !.heap = @ \ UNION {FreedFor(w.strm[s], s) : s \in S},
            !.strm = [s \in Streams |-> IF s \in S THEN Gone(w.strm[s]) ELSE w.strm[s]]]

StreamClosed(w, s) == StreamsClosed(w, {s})

StreamsOf(w, c) == {s \in Streams : w.strm[s].conn = c}

Commit(w) == strm' = w.strm /\ fds' = w.fds /\ heap' = w.heap /\ disk' = w.disk

\* The label __exx of the callbacks: every stream, then the socket.
ConnClosed(w, c) ==
  LET r == StreamsClosed(w, StreamsOf(w, c)) IN
  /\ Commit([r EXCEPT !.fds = Close(@, {conn[c].fd})])
  /\ conn' = [conn EXCEPT ![c] = [cb |-> "closed", fd |-> NoFd]]

\* A callback of nghttp2 that fails makes nghttp2_session_recv fail, and that ends
\* the connection with all its streams.
Returned(w, c) ==
  IF w.ok THEN Commit(w) /\ UNCHANGED conn ELSE ConnClosed(w, c)

-----------------------------------------------------------------------------
(* Binding a service, in another thread than the ones that serve requests: the *)
(* path can be found as soon as the tree is compiled, the class is set later.  *)

BindBegins ==
  /\ ~crashed /\ service = "none"
  /\ service' = "matched"
  /\ UNCHANGED <<flags, conn, strm, fds, heap, disk, crashed>>

BindEnds ==
  /\ ~crashed /\ service = "matched"
  /\ service' = "bound"
  /\ UNCHANGED <<flags, conn, strm, fds, heap, disk, crashed>>

\* h2esq_instance_find_service, kept in the stream when it finds one.
Found(s) == strm[s].svc \/ (strm[s].path # "unbound" /\ service # "none")

-----------------------------------------------------------------------------
(* Connections *)

\* h2esq_create_new_session. Without a descriptor nothing is left behind.
Accept(c) ==
  /\ ~crashed /\ conn[c].cb = "none" /\ CanOpen(fds)
  /\ LET f == Lowest(fds) IN
     /\ fds' = [fds EXCEPT ![f] = Desc("sock", c)]
     /\ conn' = [conn EXCEPT ![c] = [cb |-> "alpn", fd |-> f]]
  /\ UNCHANGED <<service, flags, strm, heap, disk, crashed>>

\* h2esq_session_fd_alpn_cb once SSL_accept is done, and h2esq_session_fd_sch_cb
\* with the header of the connection; being asked to come again changes nothing.
Alpn(c) ==
  /\ ~crashed /\ conn[c].cb = "alpn"
  /\ conn' = [conn EXCEPT ![c].cb = "sch"]
  /\ UNCHANGED <<service, flags, strm, fds, heap, disk, crashed>>

Sch(c) ==
  /\ ~crashed /\ conn[c].cb = "sch"
  /\ conn' = [conn EXCEPT ![c].cb = "fd"]
  /\ UNCHANGED <<service, flags, strm, fds, heap, disk, crashed>>

\* EXIT, FD_CLOSE, ERROR, TIMEOUT, a failing handshake, read or write, or nothing
\* wanted any more: __exx of whichever callback serves the connection.
ConnEnds(c) ==
  /\ ~crashed /\ conn[c].cb \in {"alpn", "sch", "fd"}
  /\ ConnClosed(World, c)
  /\ UNCHANGED <<service, flags, crashed>>

-----------------------------------------------------------------------------
(* Uploads: sfs_post_data_parser_cb, called for each element of the body *)

\* The label __exx: the file is closed and the upload is in error.
PostError(w, s) ==
  Fail([w EXCEPT !.fds = Close(@, {w.strm[s].ctx.post_fd}),
                 !.strm[s] = [@ EXCEPT !.ctx.post_fd = NoFd, !.ctx.post_state = "ERROR"]])

Uploading(w, x) == w.strm[x].ctx.alloc /\ w.strm[x].ctx.post_fd # NoFd
HasUpload(w, x) == Uploading(w, x) \/ w.strm[x].done

\* sfs_open_post_file; every upload has the same name, and O_TRUNC empties it. The
\* uploads of the others that are open or finished no longer have the file alone.
OpenPostFile(w, s) ==
  LET f == Lowest(w.fds) IN
  [w EXCEPT !.fds = [@ EXCEPT ![f] = Desc("post", s)],
            !.disk = <<>>,
            !.strm = [x \in Streams |->
                        IF x = s
                        THEN [w.strm[s] EXCEPT !.ctx.post_fd = f, !.ctx.post_state = "OPEN",
                                !.mixed = \E y \in Streams \ {s} : Uploading(w, y)]
                        ELSE [w.strm[x] EXCEPT !.mixed = @ \/ HasUpload(w, x)]]]

\* sfs_write_post_file at the offset of the descriptor.
WritePostFile(w, s) ==
  LET f == w.strm[s].ctx.post_fd
      p == w.fds[f].pos + 1
      len == IF p > Len(w.disk) THEN p ELSE Len(w.disk)
  IN [w EXCEPT !.fds[f].pos = p,
               !.disk = [i \in 1 .. len |-> IF i = p THEN s ELSE IF i <= Len(w.disk) THEN w.disk[i] ELSE Hole],
               !.strm[s] = [@ EXCEPT !.ctx.post_state = "RECV", !.values = w.strm[s].values + 1]]

\* Mutant: the number is not forgotten when the file is closed.
FinishPostFileKept(w, s) ==
  [w EXCEPT !.fds = Close(@, {w.strm[s].ctx.post_fd}),
            !.strm[s] = [@ EXCEPT !.ctx.post_state = "FINISHED", !.done = TRUE]]
FinishPostFile(w, s) ==
  [w EXCEPT !.fds = Close(@, {w.strm[s].ctx.post_fd}),
            !.strm[s] = [@ EXCEPT !.ctx.post_fd = NoFd, !.ctx.post_state = "FINISHED", !.done = TRUE]]

PostElement(w, s, el, fault) ==
  LET ctx == w.strm[s].ctx
      st == ctx.post_state
  IN CASE "upload" \notin flags -> w
       [] "upload" \in flags /\ st \in {"ERROR", "FINISHED"} -> Fail(w)
       [] "upload" \in flags /\ st \in {"INIT", "OPEN", "RECV"} ->
          CASE el = "FILE_PART" /\ st = "INIT" -> IF fault \/ ~CanOpen(w.fds) THEN Fail(w) ELSE OpenPostFile(w, s)
            [] el = "EMPTY_FILE_PART" /\ st = "INIT" -> [w EXCEPT !.strm[s].ctx.post_state = "OPEN"]
            [] el \in {"FILE_PART", "EMPTY_FILE_PART"} /\ st # "INIT" -> PostError(w, s)
            [] el = "VALUE" /\ st # "INIT" ->
                 IF fault \/ ctx.post_fd = NoFd THEN PostError(w, s) ELSE WritePostFile(w, s)
            [] el = "BOUNDARY" /\ st = "RECV" -> FinishPostFile(w, s)
            [] el \notin {"FILE_PART", "EMPTY_FILE_PART", "VALUE", "BOUNDARY"} /\ st = "RECV" -> PostError(w, s)
            [] OTHER -> w

\* post_data_parser: which elements follow one another. The lines at the head of a
\* part (form data, name, file name, type, empty line) are one element: only the
\* file name matters, and the callback refuses the first of them if any. The result
\* of the callback is not looked at for FINISH; an element out of place is
\* reported as an error.
Follow(last) ==
  CASE last = "VOID" -> {"BOUNDARY"}
    [] last = "BOUNDARY" -> {"PART", "FILE_PART", "EMPTY_FILE_PART", "FINISH"}
    [] last \in {"PART", "FILE_PART", "EMPTY_FILE_PART"} -> {"VALUE"}
    [] last = "VALUE" -> {"VALUE", "BOUNDARY"}
    [] last = "FINISH" -> {}

Element(w, s, el, fault) ==
  IF el \in Follow(w.strm[s].last)
  THEN LET r == PostElement(w, s, el, fault) IN
       IF el = "FINISH" THEN [r EXCEPT !.ok = TRUE, !.strm[s].last = el]
       ELSE [r EXCEPT !.strm[s].last = el]
  ELSE Fail(PostElement(w, s, "ERROR", FALSE))

-----------------------------------------------------------------------------
(* Requests: nghttp2 calls these while it reads from the connection *)

\* h2esq_stream_on_begin_headers and h2esq_stream_on_header.
Headers(c, s, path, post) ==
  /\ ~crashed /\ conn[c].cb = "fd" /\ strm[s].st = "idle"
  /\ strm' = [strm EXCEPT ![s] = [NewStream EXCEPT !.st = "open", !.conn = c, !.path = path, !.post = post]]
  /\ UNCHANGED <<service, flags, conn, fds, heap, disk, crashed>>

\* A second HEADERS frame of a stream: h2esq_stream_on_header refuses it.
Trailers(s) ==
  /\ ~crashed /\ strm[s].st = "open"
  /\ ConnClosed(World, strm[s].conn)
  /\ UNCHANGED <<service, flags, crashed>>

\* nghttp2_submit_rst_stream: the frame leaves later.
Reset(w, s) == [w EXCEPT !.strm[s].rst = TRUE]

\* A service is called: without its class the process dies.
Serve(c, s, w) ==
  IF service = "bound"
  THEN Returned(w, c) /\ UNCHANGED <<service, flags, crashed>>
  ELSE crashed' = TRUE /\ UNCHANGED <<service, flags, conn, strm, fds, heap, disk>>

\* h2esq_stream_on_data_chunk_recv with one element of the body.
Data(s, el, fault) ==
  LET c == strm[s].conn
      w == WithCtx([World EXCEPT !.strm[s].svc = TRUE], s)
  IN /\ ~crashed /\ strm[s].st = "open"
     /\ el = "VALUE" => strm[s].values < MaxValues
     /\ fault => Faults
     /\ CASE ~strm[s].post -> Returned(Fail(World), c) /\ UNCHANGED <<service, flags, crashed>>
          [] strm[s].post /\ ~Found(s) -> Returned(Reset(World, s), c) /\ UNCHANGED <<service, flags, crashed>>
          [] strm[s].post /\ Found(s) -> Serve(c, s, Element(w, s, el, fault))

\* sfs_file. A failure frees the context without closing the upload.
SfsFile(w, s, fault) ==
  LET r == WithCtx(w, s)
      f == Lowest(r.fds)
      failed == Fail([r EXCEPT !.strm[s] = [@ EXCEPT !.ctx = NoCtx, !.refused = TRUE],
                               !.heap = @ \ {<<"ctx", s>>}])
  IN IF fault \/ ~CanOpen(r.fds) THEN failed
     ELSE [r EXCEPT !.fds = [@ EXCEPT ![f] = Desc("file", s)], !.heap = @ \cup {<<"path", s>>},
                    !.strm[s] = [@ EXCEPT !.st = "answering", !.ctx.fd = f, !.ctx.path = TRUE]]

\* sfs_folder. When the answer cannot be submitted the context is given up, not freed.
SfsFolder(w, s, fault) ==
  LET r == WithCtx(w, s)
      f == Lowest(r.fds)
  IN IF "browse" \notin flags THEN Fail(w)
     ELSE IF ~CanOpen(r.fds) THEN Fail(r)
     ELSE IF fault THEN Fail([r EXCEPT !.strm[s] = [@ EXCEPT !.ctx = NoCtx, !.refused = TRUE]])
     ELSE [r EXCEPT !.fds = [@ EXCEPT ![f] = Desc("dir", s)], !.heap = @ \cup {<<"path", s>>},
                    !.strm[s] = [@ EXCEPT !.st = "answering", !.ctx.dir = f, !.ctx.path = TRUE]]

\* sfs_handler: what lstat says of the path decides.
SfsHandler(w, s, fault) ==
  LET p == w.strm[s].path IN
  CASE p \in {"unbound", "unsafe", "missing", "special"} -> Fail(w)
    [] p = "file" \/ (p = "index" /\ "send_index" \in flags) -> SfsFile(w, s, fault)
    [] p = "dir" \/ (p = "index" /\ "send_index" \notin flags) -> SfsFolder(w, s, fault)

\* h2esq_frame_recv_cb at the end of the request: h2esq_stream_on_request_recv.
EndStream(s, fault) ==
  LET c == strm[s].conn IN
  /\ ~crashed /\ strm[s].st = "open"
  /\ fault => Faults
  /\ IF Found(s)
     THEN Serve(c, s, SfsHandler([World EXCEPT !.strm[s].svc = TRUE], s, fault))
     ELSE /\ Returned(Reset([World EXCEPT !.strm[s].st = "answering"], s), c)
          /\ UNCHANGED <<service, flags, crashed>>

\* RST_STREAM comes in: h2esq_stream_on_close.
ResetByPeer(s) ==
  /\ ~crashed /\ strm[s].st \in {"open", "answering"}
  /\ Commit(StreamClosed(World, s))
  /\ UNCHANGED <<service, flags, conn, crashed>>

-----------------------------------------------------------------------------
(* Answers: nghttp2 calls these while it writes to the connection *)

\* RST_STREAM goes out and nghttp2 closes the stream.
SendReset(s) ==
  /\ ~crashed /\ strm[s].rst
  /\ Commit(StreamClosed(World, s))
  /\ UNCHANGED <<service, flags, conn, crashed>>

\* sfs_read_local_file_cb: a piece of whatever the descriptor stands for; at the
\* end the stream closes, and an error resets it.
\* Mutant: an error is passed over.
FileReadOn(w, s, fault) ==
  LET f == w.strm[s].ctx.fd IN
  IF w.fds[f].pos = FileLen THEN StreamClosed(w, s)
  ELSE IF fault THEN [w EXCEPT !.fds[f].pos = @ + 1]
  ELSE [w EXCEPT !.strm[s].sent = Append(@, <<w.fds[f].of, w.fds[f].pos>>), !.fds[f].pos = @ + 1]
FileRead(w, s, fault) ==
  LET f == w.strm[s].ctx.fd IN
  IF fault \/ w.fds[f].kind # "file" THEN Reset(w, s)
  ELSE IF w.fds[f].pos = FileLen THEN StreamClosed(w, s)
  ELSE [w EXCEPT !.strm[s].sent = Append(@, <<w.fds[f].of, w.fds[f].pos>>), !.fds[f].pos = @ + 1]

SendFile(s, fault) ==
  /\ ~crashed /\ strm[s].st = "answering" /\ ~strm[s].rst /\ strm[s].ctx.alloc /\ strm[s].ctx.fd # NoFd
  /\ fault => Faults
  /\ Commit(FileRead(World, s, fault))
  /\ UNCHANGED <<service, flags, conn, crashed>>

\* sfs_read_local_folder_cb up to the end of the listing.
SendFolder(s) ==
  /\ ~crashed /\ strm[s].st = "answering" /\ ~strm[s].rst /\ strm[s].ctx.alloc /\ strm[s].ctx.dir # NoFd
  /\ Commit(StreamClosed(World, s))
  /\ UNCHANGED <<service, flags, conn, crashed>>

Next ==
  \/ BindBegins \/ BindEnds
  \/ \E c \in Conns : Accept(c) \/ Alpn(c) \/ Sch(c) \/ ConnEnds(c)
  \/ \E c \in Conns, s \in Streams, p \in Paths, post \in BOOLEAN : Headers(c, s, p, post)
  \/ \E s \in Streams :
       \/ Trailers(s) \/ ResetByPeer(s) \/ SendReset(s) \/ SendFolder(s)
       \/ \E el \in Follow(strm[s].last) \cup {"ERROR"}, fault \in BOOLEAN : Data(s, el, fault)
       \/ \E fault \in BOOLEAN : EndStream(s, fault) \/ SendFile(s, fault)

Spec == Init /\ [][Next]_vars

-----------------------------------------------------------------------------
(* Properties *)

Owns(s, f, kind) == fds[f].kind = kind /\ fds[f].of = s

\* Whatever order handshakes, uploads, answers, resets and ends of connections come
\* in, a number that a connection or a context holds is open and stands for what
\* was opened for it: it was not closed and handed out again to somebody else
\* (sfs_on_stream_close, __exx of the callbacks, post-parser.c).
HeldIsOwn ==
  /\ \A c \in Conns : conn[c].fd # NoFd => Owns(c, conn[c].fd, "sock")
  /\ \A s \in Streams : strm[s].ctx.alloc =>
       /\ strm[s].ctx.fd # NoFd => Owns(s, strm[s].ctx.fd, "file")
       /\ strm[s].ctx.dir # NoFd => Owns(s, strm[s].ctx.dir, "dir")
       /\ strm[s].ctx.post_fd # NoFd => Owns(s, strm[s].ctx.post_fd, "post")

HeldFds == {conn[c].fd : c \in Conns} \cup UNION {CtxFds(strm[s].ctx) : s \in Streams}

\* No descriptor and no block is left behind, with one exception that is in the
\* code: a service that cannot give its answer lets go of the context (file.c:88,
\* folder.c:408), and with it of an upload that is not finished; a folder loses the
\* context as well.
NothingLeftBehind ==
  /\ \A f \in Fds : fds[f] # Free /\ f \notin HeldFds => fds[f].kind = "post" /\ strm[fds[f].of].refused
  /\ \A b \in heap : strm[b[2]].ctx.alloc \/ (b[1] = "ctx" /\ strm[b[2]].refused /\ "browse" \in flags)

\* What a client receives is its own file from the start and without a gap, also
\* when descriptors are closed and handed out again between two reads
\* (sfs_read_local_file_cb reads by the number kept in data_prd).
SendsOwnFile ==
  \A s \in Streams : \A i \in 1 .. Len(strm[s].sent) : strm[s].sent[i] = <<s, i - 1>>

\* A file whose upload was finished holds exactly the data of that upload, unless
\* somebody else opened the same name while it was open or afterwards
\* (sfs_open_post_file takes no care of that).
UploadIsWhole ==
  \A s \in Streams : strm[s].done /\ ~strm[s].mixed => disk = [i \in 1 .. strm[s].values |-> s]

\* What is read for a stream and written for it is its own file, whole, although
\* the numbers of descriptors pass from one stream to the next.
FilesAreOwn == SendsOwnFile /\ UploadIsWhole
=============================================================================
