# TLA+ models of RVPF's C libraries

This directory holds TLA+ models of the C code of RVPF under
`src/core/src/main/c`. It has the modules, the TLC configurations that check
them, and `PROJECT.json`. `PROJECT.json` maps every modelled definition to the
source lines it stands for, and lists the runs, the mutants, the findings and
the hazards.

## The system

The C code has three protocols and the store it uses.

| Part | Source | State | Operations |
|---|---|---|---|
| RVPF_SSL stream | `lib/impl/rvpf_ssl.c` | status latch, BIO/SSL or socket, trust and certificate files | create, setTrust, setCertificate, open, send, receive, close, clearError, dispose |
| XPVPC client | `lib/impl/rvpf_xpvpc.c` | status latch, document id counter, pending count, text buffer with position/limit, file-level `_autoFlush` | open, login, sendValue, flush, close, clearError, setAutoFlush, setClient, dispose |
| PIPE endpoint | `lib/impl/rvpf_pipe.c` | stdin/stdout buffers, status, the `setjmp` target, the current engine or sink request with its result list | nextEngineRequest, nextSinkRequest, addEngineResult, clearEngineResults, setEngineResultState/Value, endEngineRequest, endSinkRequest, error, fatal |
| Value codec | `store/CStoreImpl.c` | a value: type, size and a block-split payload | CStore_newValue, _splitLength, _splitValue, _joinValue, valueToStateName/Code/String |
| Handles map | `store/HandlesMap.c` | a chained hash table of handle pairs, size, threshold, capacity | create, put, get, remove, clear, keys, values, _rehash |
| Proxy store | `store/ProxyStoreImpl.c` | file-level `_contexts`, `_javaVM`, `_jvmHandle` | RVPF_CStore_context (create), CStore_dispose, and calls that go through JNI |
| CStore glue | `store/CStore.c` | per call: the pinned arrays and copied strings; per context: the logger `contextHandle` allocated | JNI entry points: contextHandle, freeContext and one per vector function |
| Null store | `store/NullStoreImpl.c` | nothing | RVPF_CStore_context, CStore_dispose, and vector functions that answer constants |
| Log | `lib/impl/rvpf_log.c` | `_level`, `_levelSet`, `_logFile`, `_logged` | setLevel, open, close, and the leveled record writers |
| Helpers | `lib/impl/rvpf_mem.c`, `rvpf_tree.c` | debug allocation tree | allocation |

How the parts interact:

- The XPVPC client writes its XML documents through an RVPF_SSL context.
  After each document it reads one line, `<done ref='N'/>`, and compares N
  with the id it sent.
- The PIPE endpoint is a child process that reads requests on stdin and writes
  responses on stdout. An error unwinds to the driver's `setjmp` through
  `rvpf_pipe_error`, `rvpf_pipe_fatal` or `_stop`.
- The CStore glue calls an implementation vector. For the proxy store, that
  vector reaches a Java VM, which all contexts share. Values cross the glue in
  the block-split encoding of `CStoreImpl.c`. `HandlesMap.c` is a handle table
  that no other file under `src/` uses.

What is hard to test in each part, and what makes it correct:

- **XPVPC.**
  - Hard to test: replies that are duplicated, garbled or cut short, a server
    that closes the connection, a close that follows a failure, a reopen, and
    the one `_autoFlush` shared by every context.
  - Correct when: an OK flush means the server read that batch, document ids
    increase, every call returns once the server answers or closes, and what
    the client writes is a sequence of whole documents.
- **PIPE.**
  - Hard to test: an error raised at any depth of the parse, and a result
    list that is cleared and then refilled.
  - Correct when: the response header's count equals the number of lines that
    follow it, every request the process has read gets a response or the
    process exits, the static DELETED state is never freed, and a point
    value line reads back as the value that was written.
- **Codec.**
  - Hard to test: payload lengths at the block boundary (65534 bytes).
  - Correct when: `_splitLength` is at least the number of bytes `_splitValue`
    writes, and joining a split payload gives back the original.
- **Handles map.**
  - Hard to test: removing an entry from a bucket that holds more than one, and
    removing or adding entries while the table is rehashed.
  - Correct when: the table behaves as a partial function from keys to values,
    and each entry sits in the bucket its hash selects.
- **Proxy store.**
  - Hard to test: two threads creating and disposing contexts at the same
    time, and a create that comes after an earlier create succeeded.
  - Correct when: a created VM is destroyed once no context is left, and a
    live context always has a VM and its classes.

## Modules

| Module | Models | Composes |
|---|---|---|
| `SslStream` | `rvpf_ssl.c` (the SSL_ENABLED build), as operators over `ssl` (the context) and `conn` (the TCP connection: the stream to the server, the reply lines still to be read, and whether the server has closed) | — |
| `Xpvpc` | `rvpf_xpvpc.c`, the user calling it, and the server at the other end | `SslStream` through `INSTANCE` |
| `MCXpvpc` | the bounds for TLC | `Xpvpc` |
| `PipeEngine` | `rvpf_pipe.c` in a PIPE child process: the request loop, the result calls and the response, driven by the test driver `test-rvpf_pipe.c` or by any sequence of result calls | `RvpfLog` through `INSTANCE` |
| `RvpfLog` | `rvpf_log.c`: the level `rvpf_log_setLevel` sets with `RVPF_LOG_LEVEL`, and the log stream `rvpf_log_open` and `rvpf_log_close` switch | — |
| `MCPipeEngine` | the bounds for TLC | `PipeEngine` |
| `PipeText` | `rvpf_pipe.c` at the character level: the seed line of an engine request read by `_nextLine`, `_nextField` and `_fillPointValue`, written back by `_pointValueToBuffer`, in a control buffer grown by `_expandBuffer` | — |
| `MCPipeText` | the bounds for TLC: the seed lines | `PipeText` |
| `ValueCodec` | `CStoreImpl.c`: `CStore_newValue`, the block split and join, and the `CStore_valueTo*` readers | — |
| `MCValueCodec` | the bounds for TLC | `ValueCodec` |
| `HandlesMapAbstract` | what `HandlesMap.h` promises: an int → int partial function with 0 for "absent" | — |
| `HandlesMap` | `HandlesMap.c`: the chained table, `_indexFor` and `_rehash` | `HandlesMapAbstract` through `INSTANCE ... WITH` |
| `MCHandlesMap` | the bounds for TLC | `HandlesMap` |
| `CStoreGlue` | `CStore.c`: what each JNI entry takes, tests, refuses and gives back, and the logger `contextHandle` allocates | — |
| `NullStore` | `NullStoreImpl.c`: the create and the constant outcome of each vector function | — |
| `ProxyStore` | `ProxyStoreImpl.c`: `RVPF_CStore_context`, `CStore_dispose` and the vector functions of a live context, called by concurrent threads, through the glue when the host is Java; or the null library instead | `CStoreGlue`, `NullStore` through `INSTANCE` |
| `MCProxyStore` | the bounds for TLC | `ProxyStore` |

### Xpvpc

State, each part as it corresponds to the code:

- `ctx` holds the context fields: `status`, `id` and `pending`.
- `ctx.text` stands for `buffer[0 .. position)`, the bytes composed and not
  yet sent. It is a sequence of tokens:
  - the batch header `Hdr(id)`;
  - one point-value element `Val(v)`;
  - the batch end `End`;
  - a login document `Login(id)`;
  - `Junk`, the bytes of a reply line that the buffer was not rewound past.
- `autoFlush` is the file-level `_autoFlush`.
- `ssl` and `conn` belong to `SslStream`.

A call such as `rvpf_xpvpc_flush` runs atomically up to the point where
`_receiveLine` blocks on the read (`pc.stage = "await"`).
`VerifyResponse` is the return of that read, together with the rest of
`_verifyResponse`. The `Resume*` actions are the rest of the function that
issued the flush or the login: `rvpf_xpvpc_login` composing its document,
`rvpf_xpvpc_close` closing the SSL context, `rvpf_xpvpc_setAutoFlush` setting
the global. The server reads whole documents off `conn.up` and appends one
reply line to `conn.down` for each. It may drop the connection at any time,
and when a stream does not start with a document it always drops it. With
`Misbehave` it may also send a duplicate acknowledgement, a garbage line, or
a line that starts like an acknowledgement (`Prefix`).

The ghost variables are bookkeeping for the properties and change nothing in
the client:

- `received`: the documents the server read, with their connection;
- `acked`: the values whose batch the client saw acknowledged;
- `inflight`: the values of the document that is awaiting its reply;
- `loggedIn`;
- `session`: counts open calls;
- `nextVal`: numbers the values so each one is distinct.

Fairness: `VerifyResponse` and the `Resume*` steps are weakly fair, because
the user's thread keeps running once the data is there. `ServerRead` is
weakly fair too, which assumes the server keeps reading. The code has no
receive timeout, so a blocked call can only return through the server.
`ServerClose` and the user's calls are not fair.


### PipeEngine

State:

- `stdin` holds the lines the framework wrote that the process has not read.
  A line is a whole request (its header line and the lines its counts
  announce), a line without a space, or the stop line `0`. `closed` means
  end of file follows `stdin`.
- `stdout` holds the lines the process wrote: an engine header with its id
  and summary, a sink header, a point value line, or an echoed line.
- `status` is `rvpf_pipe_status`.
- `proc` says where the process is. It is in the request loop, in user code
  holding `request`, or gone: "exited" after the `longjmp` to `main`,
  "crashed" after an undefined `free`.
- `request` is the parsed request. For an engine request it holds its result
  list and `results.count`.
- `calls` counts result calls, and `badFree` records a `free` of the static
  DELETED string.
- `mode` and `driver` are fixed by `Init`: `argv[1]`, and which user code
  runs.
- `logLevel`, `levelSet`, `logFile` and `env` are the log's (`RvpfLog`):
  `_level`, `_levelSet`, `_logFile` (NULL and stderr are one value, since
  `_log` and `rvpf_log_close` treat them alike) and the `RVPF_LOG_LEVEL`
  the process was started with, after `atoi`. `levelCalls` is a history
  variable: the argument of every `rvpf_log_setLevel` call so far.

A point value is abstracted to three things: whether it has a stamp, whether
its state is absent, a string or the DELETED sentinel, and whether it has a
value.

Actions:

- `WriteRequest`, `WriteLine` and `CloseInput` are the framework.
- `FirstLineEcho` and `FirstLineStop` are `_firstLine`.
- `rvpf_pipe_nextEngineRequest` and `rvpf_pipe_nextSinkRequest` parse a
  request, or fail through `rvpf_pipe_error`, or see EOF.
- `DoTransform` and `DoSink` are the test driver's `_doTransform` and
  `_doSink`, with every result call they make inside the action.
- With the "api" driver, user code makes any sequence of calls, bounded by
  `MaxCalls`: `rvpf_pipe_addEngineResult`, `rvpf_pipe_clearEngineResults`,
  `rvpf_pipe_setEngineResultState`, `rvpf_pipe_setEngineResultValue` and
  `rvpf_pipe_endEngineRequest`. It may also call `rvpf_pipe_setLogLevel`,
  `rvpf_log_open` (which may fail; `LogOpen`) or `rvpf_log_close`
  (`LogClose`).
- `Init` is the state after `main`'s `rvpf_pipe_version()`, which calls
  `rvpf_log_setLevel(-TRACE)`: the level is the environment's, or TRACE
  when `RVPF_LOG_LEVEL` is absent, or stays WARN when its value is not a
  level.

`LevelFollowsCalls` compares the level with `SpecifiedLevel`, a reference
definition written from spec.md (4 and 6.4) and the comment of
`rvpf_log_setLevel` in `rvpf_log.h`. It is a function of the whole call
history: the last call that named a level in 0..7 wins. Without one, the
first negative call that yields a level gives the environment's value, or
the opposite of its argument when the variable is absent. Without either,
the level is WARN. The code instead works step by step, through
`_levelSet` and a recursive call.

Fairness: the process's steps are weakly fair. The process is
single-threaded and runs whenever it has input. The framework's steps are not
fair.

### PipeText

`PipeEngine` abstracts a point value to which fields it has; `PipeText`
keeps its characters. A character is a one-character string, with `NUL`,
`CR` and `LF` for `'\0'`, `'\r'` and `'\n'`. A buffer is a record: `at`,
the characters `at[0 .. limit)`, `limit`, `capacity`, and `over`, which
records a write at or past the capacity. Parsing works on indexes into `at`
as the C code works on `position` and `mark`, and writes the NUL that
`_nextField` puts over a space.

State: `sent` is the line the framework wrote and the point value it means;
`stdin` is what the process has not read; `buf` is the request's control
buffer; `result`, `out` and `parsed` are the seed the process parsed, the
line it wrote back, and what the framework reads in that line.

Actions:

- `ReceiveSeed` is lines 420-422 of `rvpf_pipe_nextEngineRequest`:
  `_nextLine` and `_fillPointValue` with the stamp required. A missing line
  or field is `rvpf_pipe_error`, and the process exits.
- `RespondSeed` is the seed's part of `rvpf_pipe_endEngineRequest`:
  `_pointValueToBuffer` and `_flushBuffer`.
- `FrameworkRead` reads that line with the grammar of spec.md 6.1. The Java
  framework is not in this repository, so this action is modelled from the
  spec.

The operators `_nextLine`, `_nextField`, `_fillPointValue` (with
`StateLoop` and `ValueLoop`, its two loops) and `_pointValueToBuffer` are
RECURSIVE or `FoldLeft` definitions over the buffer.

### ValueCodec

State:

- `storeValue` is a `c_store_value_t`: the type tag, `size`, and the map `W`
  of the writes made to its byte array. A position holds a byte, or the start
  of a `memcpy` of `n` payload bytes. Positions never written read as zero,
  because `CStore_allocate` zeroes.
- `input` is what the value was built from.
- `result` is what the last reader returned.

The split is computed, not assumed:

- `SplitBlocks` is RECURSIVE and writes two length bytes and up to
  `MAX_BYTES_BLOCK` payload bytes per block, as the loop in `_splitValue`
  does.
- `JoinFrom` walks the blocks back, as `_joinValue` does.
- `_splitLength` is the code's formula.

The numeric types go through `ShiftByte`, the code's shifts and masks.
`CStore_valueToDouble` of an integral type returns the union the code leaves
unassigned. This is a nondeterministic choice, drawn from `Numbers`.

### HandlesMap

State:

- `table` maps each bucket index to its chain of `[key, value]` entries,
  head first.
- `capacity`, `size` and `threshold` are the struct's fields.
- `ret` is the handle or size the last call returned.
- `listed` is the array `keys` or `values` returned.
- `phase` is "live", "crashed" (an `ASSERT` failed, and `CStore_assert`
  dereferences NULL) or "disposed".

Each public function is one action. The map has no lock and its caller owns
it, so calls do not interleave.

- `_indexFor` is exact. The key is converted to an unsigned 32-bit `hash_t`,
  kept as two 16-bit halves because TLC's integers are 32-bit signed. The
  four shift/add/xor steps are applied, and the result is masked with
  `capacity - 1`.
- `_rehash` walks the old buckets in order and pushes each entry onto the
  head of its new bucket, as the code does. At `MAXIMUM_CAPACITY` it only
  sets the threshold to `MAXIMUM_SIZE`.

`AbsMap == INSTANCE HandlesMapAbstract WITH contents <- [k \in Keys |->
Lookup(table, capacity, k)]` maps the table to the partial function. A key's
abstract value is what `HandlesMap_get` returns for it. `ret` and `listed`
map to themselves.

### ProxyStore

State:

- `javaVM`, `jvmHandle`, `classes` (`_storeProxyClass`) and `contexts` are
  the file-level variables.
- `processVM` is the VM that actually exists in the process: the Java
  host's, one the library created, none, or one that was destroyed. JNI
  creates at most one VM per process, and none after `DestroyJavaVM`.
- `pc`, `tmp` and `proxy` are each caller thread's place in its call, the
  value of `_contexts` it read, and whether its context got a `StoreProxy`.
- `crashed` records that the process died: a NULL `_javaVM` was
  dereferenced, `NewObject` was called with a NULL class, an `ASSERT`
  failed, or memory was freed twice.
- `calls` counts creates.

`host` is fixed by `Init`:

- "java": the library was loaded by the JVM, and `CStore.c` passes the VM
  it got in `JNI_OnLoad`.
- "c": a C program passes NULL, so the library loads `libjvm` and creates
  its own VM.

A create is four steps:

1. `CreateVM`: lines 81-133.
2. `LoadClasses`: `_loadClasses`. An attach failure crashes, and so does a
   `StoreProxy` class that is not found: `CStore_getClass` clears the
   exception the test after it looks for, so the method lookups run on the
   NULL class. A missing method or glue class leaves the class loaded and
   the create calls `CStore_dispose(NULL)`.
3. `NewContext`: allocation and the proxy constructor, then the read of
   `_contexts`. A failed allocation calls `CStore_dispose(NULL)`.
4. `CountContext`: the write of `++_contexts`.

A dispose of a context starts with `DisposeStart`, up to the read of
`--_contexts`: the `ASSERT` on `_contexts`, `_getJNIEnv`, and on an attached
thread the proxy's dispose, whose `_exceptionDescribed` ASSERTs the class.
`DisposeEnd` writes `--_contexts`. The tail of `CStore_dispose`, shared with
the `CStore_dispose(NULL)` of a failed create, is one step per read of the
file-level state, since nothing locks it: `DisposeTest` (`if (!_contexts)`),
`UnloadClasses` (`_getJNIEnv` reads `_javaVM`), `CloseVM` (`if
(_jvmHandle)`) and `DestroyVM` (`if (_javaVM)`, `DestroyJavaVM`, close the
library). `Disposed` returns to the caller. `++` and `--` are split so that
two callers can lose an update. `CStore_supportsThreads` returns true, so
the callers may be concurrent.

A vector function called on a live context is two steps:

1. `CallStart(t)` is `_getJNIEnv`, after `Enter(t, o)` chose the function. It dereferences `_javaVM`, and
   `AttachCurrentThread` may fail, leaving `env` NULL. The constant
   `Attach` holds the outcomes the run allows.
2. `CallEnd(t)` is the rest of the function. It picks one of the outcomes
   `cStoreVector[o][env]` allows: a code the Java method returned,
   `STATUS_CODE_FAILED`, `BAD_HANDLE` for a zero handle, an answer, or a
   crash. There are four families of functions:
   - `JavaCode`;
   - `Checked`;
   - `Answer`;
   - `ArrayCall`: these release their arrays with `DeleteLocalRef` after
     the env test, and so through a NULL env.

   `CStore_read` and `CStore_deliver` add the crash of `CStore_acceptValues`
   on a failed element allocation (`AcceptValues`). `CStore_delete` adds the
   crash of `SetLongArrayRegion` on a `times` array whose allocation it does
   not test.

   Each function is named after its C function.

`op`, `env` and `returned` hold, for each caller, the function it is in,
its env, and what its last call returned. The StoreProxy Java class is not
in this repository. So what a method does to the store, such as the
connection that `interrupt` drops by calling `disconnect`, is not state of
the model.

`library` is fixed by `Init`: "proxy" (`ProxyStoreImpl.c`) or "null"
(`NullStoreImpl.c`). The null library's create is `NullContext` and its
dispose `NullDispose`. Its vector functions are one step, `NullCall`, that
returns the constant `NullStore` gives: a status code, an answer, or a
string literal of the library.

With the Java host, each call goes through the JNI entry of `CStore.c`,
modelled by `CStoreGlue`:

- `ContextHandle` is `Java_..._contextHandle` up to the library call: the
  logger and its context are allocated (`logger`). A create that then fails
  does not free them (`Abandon` counts them in `leaked`); `freeContext`
  frees them after the dispose (in `Disposed`).
- `Enter(t, o)` is the part of the entry before the vector call. Each array
  pin and string copy may fail (`Pin = BOOLEAN`); what was taken is
  `held[t]`. When what the entry tests was taken, the vector is called
  (`CallStart`); otherwise the entry returns its refusal. A NULL name for
  `putEnv` or `useCharset` fails `CStore_assert` (`AssertFails`), and a
  failed element allocation in `CStore_acceptValues` crashes `write`.
- `Exit(t)` is the tail (`GiveBack`): each entry releases the arrays and
  frees the strings of its own list (`releases`), each under its own NULL
  test, so a take that failed is not released. It also frees the string
  the vector returned; freeing a string literal crashes.
- `CallEnd` for `exchangeHandles` crashes when the proxy writes status codes
  into an array the entry failed to pin: the entry does not test it.

Properties:

- `GlueReleases`: while the process is alive, a thread outside a call holds
  no pinned array or copied string: every entry's release list covers what
  it may have taken, whichever takes failed.
- `CallsReturn` (action property): no step of a vector call, from the entry
  to its return, crashes the process.
- `LiveContextUsable`: a live context of the proxy library has its VM and
  its classes.

## Runs

| Run | Config | Expect | What it shows |
|---|---|---|---|
| `xpvpc_delivery` | `MCXpvpc_delivery.cfg` | pass | The server may misbehave. Still, an OK flush means the server read that batch (`AckedDelivered`), ids increase across reconnects (`DocumentIdsIncrease`), and every call returns (`CallsReturn`). |
| `xpvpc_stream_documents` | `MCXpvpc_StreamStartsWithDocument.cfg` | violation | A reply that starts like an acknowledgement and then fails leaves its bytes in the buffer. After close and reopen, those bytes start the next document. The same close also leaves the pending batch, which the next login's flush sends before the login document. |
| `pipe_requests` | `MCPipeEngine_requests.cfg` | pass | In both modes, with the test driver or arbitrary result calls, every request the framework writes is answered or the process exits (`RequestsAnswered`). Whatever `RVPF_LOG_LEVEL` holds and whatever levels user code sets after `main`'s version call, the level is the one spec.md gives for that history (`LevelFollowsCalls`). |
| `pipe_response_framed` | `MCPipeEngine_ResponseFramed.cfg` | violation | `rvpf_pipe_clearEngineResults` leaves `results.count`. A request that adds a result, clears, and ends gets a header announcing a line that never follows. |
| `pipe_text` | `MCPipeText.cfg` | pass | Whatever blank lines, spaces and CRs surround the seed line, the process reads the point value the framework wrote. The line it writes back reads as the same value, with bracket and quote escapes (`SeedRoundTrip`). No write passes the capacity `_expandBuffer` grew the buffer to (`NoOverflow`). |
| `codec_roundtrip` | `MCValueCodec.cfg` | pass | For every type and every payload length around the 65534-byte block limit, `valueTo*` gives back what `CStore_newValue` was given (`RoundTrip`), and the state join meets the code's own `ASSERT` (`StateJoinAsserted`). |
| `codec_split_allocation` | `MCValueCodec_SplitFitsAllocation.cfg` | violation | At 65532 payload bytes, `_splitLength` skips the end-marker padding. `_splitValue` writes two bytes past the allocation. |
| `handles_invariants` | `MCHandlesMap.cfg` | pass | After any calls, with rehashes up to the capped capacity, every entry is in the bucket `_indexFor` gives it (`BucketPlacement`), no key has two entries (`NoDuplicateKeys`), and the size stays within the threshold (`SizeWithinThreshold`). |
| `handles_refinement` | `MCHandlesMap_Refines.cfg` | violation | `Refines` fails: put(1), put(8) (the rehash puts 1 at the head of 8's bucket), remove(1) empties the bucket and loses 8. |
| `proxy_lifecycle` | `MCProxyStore.cfg` | pass | Two callers, Java or C host, proxy or null library, and seven vector functions, with attach, pin and allocation failures. A thread outside a call holds no array or string of the glue (`GlueReleases`). |
| `proxy_live_context` | `MCProxyStore_LiveContextUsable.cfg` | violation | A C host creates a context, then calls `RVPF_CStore_context` again. Line 81 sets `_javaVM` to NULL, the VM creation fails because one exists, and `_jvmHandle` is zeroed. The live context has lost its VM. |
| `proxy_calls_return` | `MCProxyStore_CallsReturn.cfg` | violation | A vector call crashes the process (`CallsReturn`). There are five ways, each one a finding: `CStore_write` calls `DeleteLocalRef` through the NULL env after an attach failure (`ProxyStoreImpl.c:825`); `Java_..._write`, and the proxy's `CStore_read` and `CStore_deliver`, read through a NULL element when an allocation in `CStore_acceptValues` fails (`CStore.c:945`); `Java_..._supportedValueTypeCodes` frees the string literal the null library returns (`CStore.c:693`); `CStore_delete` writes through the `times` array it did not test (`ProxyStoreImpl.c:238`); `exchangeHandles` passes a NULL `status_codes` to the proxy, which writes into it (`CStore.c:333`). TLC's shortest trace is the `acceptValues` one. |

### Bounds

- **`MCXpvpc`:**
  - `MaxId = 4`: a login, two batches and a second login.
  - `MaxValues = 2`: two values in one batch, or one on each side of a
    failure.
  - `MaxSessions = 2`: one close and reopen.
  - `AutoFlushChoices = {0, 2}`.

  Every failure found takes two documents on one connection and a reopen.
  Three values and three sessions give the same verdicts but run past five
  minutes.
- **`MCPipeEngine`:** two requests and two result calls per request. That
  reaches add-then-clear, clear-then-add, set-state on a cloned DELETED state,
  and a request following one that failed. `RVPF_LOG_LEVEL` is absent, 4,
  or 9 (not a level). User code sets the level to -2 or 7 (ALL, the top of
  the range). That reaches a negative call after a named one, a named call
  after the environment's level, and an environment value that is never
  taken.
- **`MCPipeText`:**
  - `INITIAL_CONTROL_BUFFER_CAPACITY` is 2, not 128. A seed line of up to
    14 characters then grows the buffer two or three times, and it also
    reaches the case where the requested room exactly equals
    `capacity - limit`.
  - States and values are the texts of length 0 to 2 over `a`, space, `[`,
    `]` and `"`, or absent. That gives every escape, an escape next to a
    space, and an empty state or value.
  - The line is preceded by nothing, a blank line or a space. It is
    followed by LF, space LF, CR LF or EOF.
  - The point name and stamp are one character each. `_nextField` cuts
    them at the first space, and the writer does not escape them (see
    hazards).
- **`MCValueCodec`:**
  - `MAX_BYTES_BLOCK` is the real 65534. The payload lengths are 0, 1, every
    length from 65531 to 65535, 131064 and 131070, so one, two and three
    blocks are reached, and so is the boundary where `_splitLength` adds or
    skips its padding.
  - The numbers sit at the edges of each width: ±1, 127/128, −128/−129,
    255, ±32767/−32768, and ±2147483647.
- **`MCHandlesMap`:**
  - The keys are 1, 8, 9 and −2. Keys 8 and 9 share a bucket at every
    capacity up to 8. Key 1 joins them at capacity 4. The negative key
    exercises the conversion to `hash_t`.
  - The values are 1 and 2.
  - The initial loads are 0, 1 and 2, giving capacities 1, 2 and 4.
  - `MAXIMUM_CAPACITY` is 4, so the fourth put reaches the capped branch of
    `_rehash`.
  - `MaxSize = 5` bounds `size`. After the remove bug, `size` can otherwise
    grow without end.
- **`MCProxyStore`:** two callers, both hosts, both libraries, and three
  creates. That is enough for a caller to create again after a dispose or a
  failed create, and for either caller to be inside any step while the
  other runs. The vector functions are `connect`, `read`, `putEnv`,
  `delete`, `exchangeHandles`, `write` and `supportedValueTypeCodes`: one of
  each family of `ProxyStoreImpl.c` and one of each shape of glue entry.
  Attach may fail (`Attach = BOOLEAN`), and so may each pin, copy and
  allocation (`Pin = BOOLEAN`). The callers are model values and the run
  uses their symmetry: nothing in the model tells the two threads apart.

`CHECK_DEADLOCK FALSE` is set where the system really stops:

- the PIPE process exits;
- the handles map is disposed, or an `ASSERT` crashes the process;
- the proxy store's process crashes, or its callers have made their creates;
- the seed exchange of `PipeText` is one request and ends.

### Mutants

Each property of a passing run has a mutant in `PROJECT.json`. The mutant is
a plausible bug in the mapped code, and TLC catches it.

- **Xpvpc:**
  - `VerifyStatusAnyRef` does not compare ids.
  - `ResumeLoginSameId` drops the increment.
  - `ResumeLoginAwaitsUnsent` blocks on a login that was never sent.
  - `OpenStoringSslCode` stores the RVPF_SSL code in the XPVPC status.
- **PipeEngine:**
  - `EndEngineKeepsRequest` does not drop the request after the response.
  - `DoTransformNoEndOnClear` returns without ending the request.
- **RvpfLog:**
  - `SetLevelEveryNegative` reads `RVPF_LOG_LEVEL` on every negative call,
    not only while no level was set (`LevelFollowsCalls`).
- **PipeText:**
  - `_nextFieldAtNul` does not step over the NUL that ended the previous
    field. The stamp is then empty (`TypeOK`).
  - `StateCharUnescaped` writes state characters without their escapes
    (`SeedRoundTrip`).
  - `_expandBufferNoDouble` grows the buffer only to the requested size,
    leaving no room for the NUL (`NoOverflow`).
- **ValueCodec:**
  - `ShiftByteUnmasked` drops the `& 0xFF`.
  - `JoinedUsingSize` reads `size` bytes instead of the joined length.
  - `_splitLengthNoPad` forgets the end marker.
- **HandlesMap:**
  - `_rehashUncapped` grows past `MAXIMUM_CAPACITY`.
  - `_rehashOldIndex` places entries by the old capacity.
  - `HandlesMap_putNoScan` adds without looking for the key.
  - `GrownPostIncrement` tests `size++` instead of `++size`.
- **ProxyStore:**
  - `DisposeStartNoAssert` drops `ASSERT(_contexts > 0)`, so a lost update
    drives the count negative.
- **CStoreGlue:**
  - `Java_deleteKeepsTimes` leaves the release of the time stamps array out
    of `Java_delete` (`GlueReleases`).

## Observations without a run

Each of these, except the ones at `CStoreImpl.c:412`, `CStoreImpl.c:185` and `rvpf_pipe.c:907`, is a hazard in
`PROJECT.json` with a note.

- `CStoreImpl.c:447`: `SHORT` is read back through an unsigned shift, so
  `valueToLong` of a negative short is positive.
- `CStoreImpl.c:524`: `valueToStateName` copies the name by a length that
  can run past the value.
- `CStoreImpl.c:185`: a `CHARACTER` is stored in one byte, so a
  character above 255 comes back as its low byte. It is not in the hazard
  list.
- `CStore.c:165`: when the library's context function returns NULL,
  `contextHandle` returns 0 without freeing the logger, its context and the
  weak reference. `ProxyStore` counts them in `leaked`; no property states
  that nothing leaks, since the code does leak on every failed create.
- `CStoreImpl.c:412`: `CStore_valueToDouble` of an integral value
  overwrites the converted number with an uninitialised local. Any unit test
  of that call shows it.
- `rvpf_pipe.c:209`: an empty result list is announced with summary 0,
  where the spec says −1.
- `HandlesMap.c:281`: `_rehash` never frees the old table.
- `ProxyStoreImpl.c:331`: the teardown is not atomic. With the invariant
  `(~crashed /\ \A t \in Threads : pc[t] = "idle") => processVM # "own"`
  added to `MCProxyStore.cfg`, TLC finds a seven-step trace under a C host.
  Caller t1 creates the VM, `_loadClasses` fails on a missing method, and
  its `CStore_dispose(NULL)` unloads the classes. Caller t2's create then
  runs line 81 (`_javaVM = NULL`), fails to create a second VM, and zeroes
  `_jvmHandle`. t1 reads `_jvmHandle` as 0 and skips `DestroyJavaVM`. Both
  callers are idle and the VM keeps running, out of the library's reach,
  and every later create fails. The dispose of a live context reaches the
  same window.
- `ProxyStoreImpl.c:161`: when the proxy constructor throws, the context
  struct is disposed as if it were the store. It is freed twice.
- `rvpf_pipe.c:524`: `rvpf_pipe_setEngineResultState` frees the current
  state. After a `-` seed, that state is the static `_deletedState`.
  `_clearPointValue` (line 617) guards against this, but
  `setEngineResultState` does not. The test driver's `_doTransform` reaches
  it. `PipeEngine` records it in `badFree` and states `NoStaticFree`.
  Adding `INVARIANT NoStaticFree` to the `pipe_requests` configuration makes
  TLC find the violation. No run keeps that check, because the store's
  call crashes took its place.
- `rvpf_pipe.c:907`: `_pointValueToBuffer` writes the point name and stamp
  without escapes. A name with a space, passed by engine code to
  `rvpf_pipe_addEngineResult`, is read back by the framework as another
  name and stamp. Names parsed from a request never hold a space, so the
  model does not draw one. It is not in the hazard list.
- `rvpf_pipe.c:911`: a deleted seed is written back as the state
  `[DELETED]`, not as `-`. The framework reads a point value with a
  DELETED state, not a deletion. `SeedRoundTrip` leaves deleted seeds out
  of its second half for this reason.
- `rvpf_pipe.c:890`: `_nextLine` drops every CR, including one inside a
  quoted value. A value with a CR or LF cannot travel in the line format,
  so the model draws none.
- spec.md 6.1 gives the state escapes as `[→]]` and `]→[[`. The code
  writes `][` for `[` and `[]` for `]`, and its parser reads those. The
  round trip checked is the code's.
- `ProxyStoreImpl.c:497`: `CStore_interrupt` calls the proxy's `disconnect`
  method. It never calls the `interrupt` method that `_loadClasses` looks
  up.

## Plan and status

1. `SslStream` and `Xpvpc`: done.
2. `PipeEngine` and `PipeText`: done for the request life cycle, the
   result calls, and the character-level syntax of a point value line.
   Left: the header fields, which go through `_stringToInt` and
   `_intToBuffer`. The log level and stream of `rvpf_log.c` are composed
   into `PipeEngine`.
3. `ValueCodec`: done for every type that fits 32 bits. Left: LONG, DOUBLE
   and FLOAT, and `valueToStateCode`.
4. `HandlesMap`: done, refined to `HandlesMapAbstract`.
5. `ProxyStore`: create, dispose and the vector functions are done, for
   both libraries and, with the Java host, through the JNI glue. Left: a
   liveness property, that every created VM is eventually destroyed, under
   fair callers.

## Not modelled

- **Parts of `CStore.c`**: `JNI_OnLoad` and `JNI_OnUnload`,
  `CStore_loadClasses`, `openLibrary` and `closeLibrary`, `returnValues`,
  and the byte conversions. They run once per process or only convert data;
  the glue model keeps what each entry holds and whether it calls the
  vector. The StoreProxy Java class is not in this repository.
- **The records of `rvpf_log.c`**: `_log` formats and writes them and
  counts them in `_logged`, which no code in the repository reads. The
  records change no other state, so the log model keeps only the level and
  the stream.
- **`rvpf_mem.c` and `rvpf_tree.c`**: allocation wrappers that abort on
  failure, and a tree the memory-debugging build uses to record
  allocations. The models take an allocation failure where the code checks
  for one.
- **The XML text encoding (`_addEncoded`) and buffer growth (`_addChar`)**:
  they sit below the token abstraction of the text. The overflow in
  `_addChar`'s growth path is listed as a hazard.
- **`rvpf_ssl_setCertificate` and the non-SSL socket build of
  `rvpf_ssl_open`**: the failure codes they add are the ASK_ERR and
  UNKNOWN_HOST outcomes of open, which give nothing new to the client.
