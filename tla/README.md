# TLA+ models of ADBI's debug-information toolkit

ADBI is a dynamic binary instrumentation framework. Its Python part (`src/idk`) has three main pieces:

- It extracts DWARF debug information from an ELF binary into an SQLite cache (the **cache builder**).
- It reads the cache back (the **cache reader**).
- It turns DWARF location expressions into C text that the instrumentation handlers compile (the **expression machine**).

`src/adbiclient` is a client for the ADBI server protocol.

This directory holds the TLA+ modules, the TLC configurations that check them, and `PROJECT.json`. `PROJECT.json` is the machine-readable index of components, runs, mutants, the source mapping, findings and hazards.

## 1. Inventory

| Component | Source | State | Operations | Interacts with |
|---|---|---|---|---|
| Expression machine | `idk/dwexpr/machine.py`, `result.py` | byte stream and read position, stack of C-text strings, `uses_frame`, `uses_cfa` | one handler per opcode family, `run`, `eval_DWARF_expr` | LEB codec (operands); called by the reader's CFA, frame-pointer, function and variable lookups |
| LEB128 codec | `idk/common/leb128.py` | none (pure) | `decode`, `encode_iter`, `encode` | machine, `cfi.py`, `datatype.py` member offsets |
| Call frame information | `cachebuilder/cfi.py`, `cachereader/cfa.py` | table of `(lo, hi, expr)` rows | FDE walk; rows of register+offset rules are encoded as `DW_OP_bregx`; lookup by address | LEB codec, `addr2fo`, machine |
| Cache lifecycle | `cachebuilder/debuginfo.py`, `cachereader/debuginfo.py` | cache file on disk (absent / written / partial), its mtime, the binary's mtime, the in-memory database | `DebugInfo.cache` (build), `store`, `loadcached`, `load` | every extractor (they write tables into the in-memory database) |
| Address translation | `cachebuilder/debuginfo.py` `addr2fo` | section headers | virtual address → file offset | CFI, instruction-set map, functions, variables, lines |
| Type extraction / dedup | `cachebuilder/datatype.py` | type graph by DIE offset; hash → representative | `_hash_list` with back references, `typehash`, compressed store in inner-before-outer order | locations; read back by the type reader |
| Type declaration order | `cachereader/datatype/*.py` | types with kind, name, inner, members | hard/soft requirements per kind, `is_forwardable`, `deforder` walk | C generation of handler code |
| Locations, lines, symbols, functions, variables | `cachebuilder/*.py`, `cachereader/*.py` | tables | one extraction pass each; queries | addr2fo, locations |
| C helpers | `cachereader/C.py` | none (pure) | `strip_comments` (a byte-driven state machine), `iter_lines`, `is_identifier`, `to_identifier` | nothing in `src/` calls them |
| Instruction-set map | `cachebuilder/insnset.py`, `cachereader/insnset.py`, `common/deco.py` | mapping symbols; process-wide range memo | `get_kind_range` memoised over `[lo, hi)` | addr2fo |
| ADBI client | `adbiclient/adbi/*.py` | socket, sequence generator | `request` (send, then receive one packet), typed requests | the ADBI server |
| Not modelled | `powercmd/*`, `arch/*/tests/*`, `libasdd/disarm.py`, `common/output.py`, `common/mixin.py` | — | command-line interface, test-vector generators, native binding, colouring | — |

### Hard behaviours

The toolkit is single-threaded. Its hard behaviours are about sequences and boundaries, not concurrency:

- **Opcode sequences.** Each opcode reads a data-dependent number of operand bytes (fixed-width or LEB128). A byte may be an opcode in one stream and an operand in another. Handlers pop in a fixed order. Some opcodes end the evaluation early. Truncated streams, unknown opcodes and short stacks must all fail the same way.
- **Numeric edges.**
  - SLEB sign extension and the one-byte/two-byte limits.
  - The closed interval of `addr2fo` at section ends.
  - `pick`'s index at the stack depth.
- **Partial failure and crash in the cache lifecycle.** `store` deletes the old cache and creates the new file before building anything. `loadcached` trusts any file that is not strictly older than the binary.
- **Recursion over type graphs.** Hashing uses back references to handle cycles. `deforder`'s walk has no in-progress marker.
- **Client protocol.** A response is matched to its request only by position on the socket.

### What makes each component correct

- **Machine.** For every stream it returns exactly when the DWARF evaluation succeeds. The C text it returns computes the DWARF value, with the right address flag and the right `uses_frame`/`uses_cfa` flags. Failures are the ones the spec names.
- **LEB.** `decode(encode(v)) = v`, and the encoding has the shortest length.
- **CFI.** A register+offset rule evaluates to `get_reg(r) + off`. Every instruction an FDE row covers gets that row's rule from the lookup, and no other.
- **C helpers.** `strip_comments` removes exactly the comments a C lexer finds. `iter_lines` keeps the text's line numbers. `to_identifier` returns an identifier, and changes only what is not one.
- **Cache lifecycle.** A loaded cache is a complete build of the current binary.
- **addr2fo.** Every address maps into the section that contains it.
- **Dedup.**
  - Merged types are the same type, layout included.
  - The store order puts every inner type before its referrer.
- **deforder.**
  - Every hard requirement is defined before its user, and every soft requirement is at least declared.
  - No type is defined twice.
  - The walk terminates.
- **Client.** Every response returned belongs to the request that got it. A typed method returns what the agent's reply says: `dump`'s bytes in address order, `get_memory`'s segments sorted, `ls`'s directories marked.

## 2. Plan and status

1. The expression machine (`LEB128`, `ExprEval`, `ExprMachine`, `MC_ExprMachine`) and the CFI bregx rule. **Done.**
2. `CacheLifecycle`: build, store and load with failure and crash points and a coarse mtime clock. **Done.**
3. `DeclOrder`: the `deforder` walk as an explicit-stack state machine. **Done.**
4. `TypeDedup`: `_hash_list`, `typehash` and the compressed store. **Done.**
5. `InsnSet` and `ReaderSession`: the range memo composed with reloads of the cache. `InsnBuild`: the builder's mapping-symbol pass. **Done.**
6. `VarScope`: `addr2fo`, scope ranges, variable and function extraction, and the reader's variable queries. **Done.**
7. `SourceLocations`, `LineTable`, `AddrSpec`: the file and location registry, the line table, symbols, and the reader's `line2addr`, `func2addr`, `sym2addr` and `get_addr`. **Done.**
8. `AdbiClient`: request and response over a socket that moves any prefix of the data, and every typed method of `ADBI`. **Done.**
9. `CComments`: the comment stripper, line splicer and identifier helpers of `C.py`. **Done.**
10. `CallFrame`: the FDE row walk of `cfi.py` and the CFA lookup of `cfa.py`. **Done.**
11. `VarScope` also covers `Framepointers`. Left: `Function.first_insn`.

The cache-builder and cache-reader computations (7 above, and the variables of 6) are queries over data a build fixes, so they are operators. They are checked in `MC_ReaderSession`, in the start state of the `cache_lifecycle` run, next to the lifecycle they belong to.

## 3. Modules

### `LinearForm`

This module holds the value of a generated C expression: an integer linear combination of `get_reg(n)`, the frame base and the CFA, plus a constant. Two texts that compute the same value have the same form, which lets the refinement compare values and not text.

### `LEB128`

`DecodeFrom`/`Decode` translate `BaseLEB.decode`. The masks become arithmetic on bytes (`b & 0x7f = b % 128`). A failed read becomes `ok = FALSE`. `Encode` translates `encode_iter` (`>>= 7` is `\div 128`, which is floor division as in Python).

### `ExprEval` (abstract)

`ExprEval` is the DWARF meaning of a stream, written from spec section 4.6 and the DWARF opcode definitions. It is a recursive operator `Reference(s)`, and its one step goes from `pending` to `Reference(expr)`.

### `ExprMachine` (detailed)

The variables are those of `Machine`:

| Variable | Meaning |
|---|---|
| `expr` | the stream |
| `pos` | the BytesIO position |
| `stack` | the stack |
| `uses_frame`, `uses_cfa` | the two flags |
| `status` | running, returned, or the exception raised |
| `result` | the returned `Result` |

The C text is kept as a tree that names the format string and its arguments. `Meaning` maps the tree to a linear form.

There is one action per handler family. Each action fetches the opcode at `pos`, reads the operands the handler reads, and applies the handler's pops and pushes:

- `StackOp`, `Pick`, `Nop`, `CallFrameCfa`, `ConstFixed`, `Literal`, `Fbreg`, `Breg`, `Arith`, `RegValue` and `StackValue` are the handlers.
- `EndOfStream` is `run`'s final pop.
- `Malformed`, `Unsupported`, `Truncated` and `Underflow` are the exceptions `run`, `unsupported`, `read` or `LEB.decode`, and `pop` raise.

`OPCODES` comes from `dwexpr/constants.py`, which is not in the repository. It is taken as the DWARF numbering 0x03..0x9f less the reserved 0x04, 0x05 and 0x07.

The refinement mapping `MachineOutcome` sends a running machine to `pending`, a returned `Result` to its meaning and flags, and any exception to `error`. `ImplementsExprEval == AbsEval!Spec` is checked as a temporal property.

### `MC_ExprMachine`

This module gives the stream sets: every stream up to length 4 over a small byte alphabet, plus the spec's test vectors. Bytes are chosen to serve as both opcodes and operands. `CfiExpr` translates the `DW_OP_bregx` encoding of `cfi.py`.

### `CacheLifecycle`

This module models one process that calls `DebugInfo.load` repeatedly while the binary is rebuilt between calls.

| Variable | Meaning |
|---|---|
| `binary` | version and mtime |
| `db` | the cache file: absent, an empty database, or complete tables for one version; plus its mtime |
| `pc` | the step of `load` the process is at |
| `writer` | the version the `DebugInfoWriter` read |
| `session` | what the last successful load returned |

The actions follow the code line by line:

- `LoadCachedHit` and `LoadCachedMiss` are the two outcomes of `loadcached`.
- `ConstructWriter` is `DebugInfoWriter(elf)`, which may raise, followed by the choice of `store`.
- `Remove`, `Connect`, `Dump` and `ExecuteScript` are the four steps of `store`.
- `InMemory` is `load(store=False)`.
- `Crash` kills the process at any step. An open sqlite transaction rolls back, so the file keeps what was last committed.
- `ModifyBinary` and `Tick` are the environment.

With `Coarse = FALSE` every write gets a later mtime. With `Coarse = TRUE` writes within one tick share it. The bounds (`MaxVersion`, `MaxFailures`, `MaxCrashes`, `MaxTime`) are named constants set in the `.cfg` files.

### `DeclOrder`

This module is `DataType.deforder` over a type table `g`. The table gives each type id a kind, whether it has a name, its inner type, and its member types.

- `HardReq` and `SoftReq` are the `get_hard_requirements`/`get_soft_requirements` of every class at once. A named type that is referred to is the requirement: soft through a pointer or reference, hard otherwise. An anonymous one contributes its own requirements instead.
- `Forwardable` is `is_forwardable` as the code evaluates it. `CompoundType.declare` and `BuiltinType.declare` are generators, so calling them never raises. `TypedefType.declare` raises unless its inner type is a named compound or enum. Every other class inherits the raising `DataType.declare`.
- The recursion of `process_type` is a stack of frames. Each frame holds the type, where it is (`enter`, `declare`, `loops`), and the elements of the loops not yet visited. Python iterates a set in an order the model does not fix, so the next element is a nondeterministic choice.
- The actions are the statements of `process_type`:
  - `AlreadyDefined` is the early return.
  - `Begin` reads the cached requirement sets.
  - `DeclareRequirement` and `DeclareSelf` are the forward declarations.
  - `ProcessHard` and `ProcessSoft` are the two recursive loops.
  - `Define` is the asserts and the final append. A failed assert sets `status` to `AssertionError`.
- `Invoke` raises `RecursionError` beyond `MaxDepth` frames.

### `MC_DeclOrder`

The table has seven types: a named struct `S`, an anonymous struct `U`, a pointer `P`, a const `Q`, a typedef `T`, an enum `E` and `void` `V`. The members of `S` and the inner types of `P`, `Q` and `T` range over small sets. A table is kept when it describes C that compiles:

- no type contains itself by value;
- every cycle of references passes through a struct tag, checked with `Graphs!IsDag`.

This gives 146 tables. Each is asked for `deforder` of every type, 1022 initial states in all.

`MaxDepth` is one more than the number of types. While a frame for type t is open, t is not defined. So a call that enters t a second time repeats the same calls, and the recursion never returns. A run without such a repeat never goes deeper than the number of types. The abstraction therefore raises `RecursionError` exactly for the walks that Python's limit stops, short of chains of a thousand distinct types.

### `TypeDedup` and `MC_TypeDedup`

`TypeDedup` is `DataTypes` of `cachebuilder/datatype.py` over a table `g` of type DIEs.

- `ConstructTypes` is the whole constructor in one step:
  - it makes a type of every DIE;
  - it evaluates member offsets, where an unsupported location raises and the build becomes `failed`;
  - it computes `HashList`/`TypeHash`, where back references stand for a type already on the path;
  - it builds the `typehash` dict, in which the last type of each hash wins, so any member of a hash class may be kept.
- The store is a walk with an explicit stack, as in `__iter_compressed_types`:
  - `IterNext` takes the next kept type;
  - `Enter` marks it done and walks its compressed inner type first;
  - `Yield` inserts its row and checks the inner foreign key.
- `StoreRest` writes the members, enumerators and dimensions, then commits.

`MC_TypeDedup` has two compile units of three DIEs each. The first is `struct S { int a; struct S *p; }`. The second varies each part of it. `Twin(d)` pairs the DIEs at the same place.

### `InsnSet` and `ReaderSession`

`InsnSet` is `get_kind_range` (`KindRange`) and the `rangecachedfn` wrapper (`Memoize`), which stores a kind for every address of `[lo, hi)`. `KindAt` is the spec's lookup.

`ReaderSession` composes `CacheLifecycle` with a caller of `get_kind`:

- `Lifecycle` is a lifecycle step.
- `GetKind` is a query on the session held.
- `SessionMemo` gives the part of the process-wide memo that a new session can reach. Keys include `self`, so a new `DebugInfo` starts empty.

### `InsnBuild`

This is the builder's pass of `cachebuilder/insnset.py`:

- `IsMappingSymbol` is `mapsymbol_iter`: names starting `$x`, `$a`, `$t` or `$d`, with or without `__dl_`.
- `KindOf` is `get_kind`.
- `BuildInsnSet` is `iter_mapping` with `store`: a row `<<addr2fo(st_value), kind>>`, and symbols `addr2fo` rejects dropped.
- `AbiKind` and `LastMappingKinds` are the spec's lookup in the address space, with the ABI's kinds. They are not code.

### `VarScope`

These are operators over the section table, the scope entries and the variable and function entries:

- `Addr2Fo` is `addr2fo`: a closed interval, with non-allocated sections skipped.
- `ScopeOf` and `MergeRanges` are `iter_ranges` and `merge_ranges`.
- `BuildVariable` and `StoreVariables` are `Variable`, with the optimized-out rule.
- `Ranges`, `VisibleAt`, `GetExpression`, `IterLocals` and `LookupResults` are the reader's queries.
- `AddFunction`, `FrameBase` and `BuildFunctions` are function extraction, including the data-form high pc and the errors that end the build. A subprogram with a formal parameter that `Variables` made no Variable of (`known`) is skipped: `get_by_DIE` raises KeyError at `functions.py:72`, and the `except KeyError` at 80–81 drops the whole function.
- `FrameBaseAt` is `Function.get_expression`.
- `FpRows`, `ByRange`, `ByFunction` and `Framepointers` are `Framepointers.__getitem__`. It first queries for a row whose range holds the address, of any function. It then falls back to the single expression of a function whose bounds hold the address, and otherwise raises KeyError.
- `InstructionOffset` (the half-open section an address lies in) states properties here and in `CallFrame`; it is not code.

### `SourceLocations`

- Paths are `[abs, comps]`.
- `IterFiles`, `Normpath` and `Join` are `iter_files` and `os.path`.
- `FileIds`, `InsertFlc`, `InsertDIEFlc`, `RegisterFrom` and `StoreLocations` are the builder's `Locations`.
- `ReadLocation` is the reader's `Locations[idx]`.
- `CommonDirs`, `UniqueEnd`, `Simplify` and `Expand` are `Files`.

### `LineTable`

- `BuildLines` is `Lines`: statement rows only, the address translated (`Invalid` when `addr2fo` fails, stored as `None`), and a location id from the registry the declarations continue.
- `Line2Addr` (through `LineIn`, `LineVerdict`) is `line2addr`, which keeps the rows as a list.
- `Func2Addr` (through `FuncIn`) is `func2addr`, which takes a set.
- `AddrVerdict` is the one/several/none verdict that `func2addr` and `sym2addr` share.

### `AddrSpec`

- `BuildSymbols` is `Symbols`: mapping symbols (`$x`, `$a`, `$t`, `$d`, and the same after `__dl_`) are dropped, and ids are numbered in order.
- `Sym2Addr` is `sym2addr`.
- `GetAddr` is `get_addr`. A spec is a sequence of tokens: separators, paths, words and numerals. `LastSep` is `rfind`, `IntOf` is `int(s, base)` for bases 10, 16 and 0, and `WithOffset` adds the hex offset.

### `CComments`

- `Transitions`, `TransitionOut` and `AnyState` are the `transitions` and `outputs` tables of `strip_comments`. `FsmNext` and `OutFn` are its two `dict.get` lookups with their fallbacks. `FsmMove` is one turn of the loop, and `FinalError` is the check after it.
- `StripComments` folds `FsmStep` over a text and returns the output and the error raised, if any.
- `RawLines`, `RStrip`, `LineStepCont` and `IterLinesFrom` are `iter_lines`: lines ending in a backslash are spliced, and each yield carries the line number where the spliced line started.
- `IsIdentifier` and `ToIdentifier` are the identifier helpers, with `KEYWORDS`, `ID_FIRST` and `ID_OTHER`.
- `RefStrip` is a reference lexer written from the docstring: strings and characters end at a quote after an even number of backslashes. It is not code of the repository and is not mapped.

### `CallFrame`

- `CfiEntries` is `CallFrameInfo.__init__` with `store`: nothing without CFI, CIEs skipped, and `FdeEntries` for each FDE.
- `RowEnd` is the end of row n: the next row's pc, or `low + address_range` for the last row. `RowTranslates` is the `try` around both `addr2fo` calls; a row it rejects is skipped.
- `RuleExpr` is the CFA rule as bytes: an expression as it is, or `DW_OP_bregx` with a LEB register and a SLEB offset. `B64Encode` and `B64Decode` are the column's encoding, which decoding undoes.
- `GetExpressionCode` is `get_expression_code`. `limit 1` has no `order by`, so the operator returns the set of rows SQLite may pick, or KeyError.
- `FdeWellFormed` states the property; it is not code.

### `MC_ReaderSession`

This module instantiates the composition with:

- three builds whose mapping symbols move;
- a section table with adjacent sections;
- a debug-entry tree in which every scope and location form occurs;
- source files that share suffixes;
- line programs with shared and ambiguous lines;
- symbol tables;
- 18 `get_addr` specs, one or more per form and error;
- every text of up to five bytes over `/ * " ' \ ⏎ space`, and names of up to three characters;
- four FDE tables over the same sections.

The operator properties are checked as `AtStart => P`, where `AtStart == SInit` is the single initial state. They are checked once, not in every state.

### `AdbiClient` and `MC_AdbiClient`

The variables are the connection, the agent's end, the bytes in each direction, and the request in progress.

- `Connect`, `Disconnect` and `Request` are `ADBI`'s methods.
- `ClientStep` is one turn of the `ReliableSocket` send or receive loop, followed by the header and payload decoding of `__recv`. It raises on `FAIL`, `USUP` and `MALF`.
- `Serve` and `PeerClose` are the agent.
- `HeaderPack`, `PayloadPack` and `PayloadUnpack` encode and decode byte by byte.
- `Request(c)` runs a typed method `c = [op, args]` (`ping` … `kill`) up to the end of `__send`:
  - `Encode(c)` is the type and payload the method builds (`NoArgRequests`, `U32Requests`, `StrRequests`, and the several-argument methods).
  - `ArgsValid` is `iter_injectable_symbols`'s check `which not in 'EIA'`.
  - `type_encode`'s `assert len(name) == 4` fires in `Header.pack`, after `next(self.seqgen)` and before any byte is sent.
- `PayloadReceived` ends with the method's reading of the response, `Decode(c, p)`:
  - `Get` is `Payload.get` (first match; absent without default is ValueError).
  - `Table` is the `xrange(count)` loop over indexed names (`Idx`, `'word[%i]'`).
  - `ToBytes` is `dump`'s `tobytes`; `SortedRows` is `sorted()` under Python 2's tuple order.
- Element names and types are their ASCII bytes (`N`, `T`), so the lengths on the wire are the real ones.
- `Moved(n) == {1, n}`: one socket call moves one byte or all that is available. Steps of one byte reach every split of the stream, so the reachable states are those of calls of any size.

## 4. Runs

| Run | Expect | Shows |
|---|---|---|
| `expr_main` | pass | Every stream of length ≤ 4 over two byte alphabets gives the DWARF outcome: the machine refines `ExprEval`. The alphabets are stack, literal and `pick` bytes, and register, frame-base, LEB and unsupported bytes. Truncated and two-byte LEB operands are included, and so are `constXX` opcodes whose operand is cut off: the code raises TypeError before reading, and DWARF fails there too. `minus` and `constXX` with a complete operand are left out, because `expr_minus` and `expr_const` show the code wrong on them. The bregx rule of `cfi.py` gives `get_reg(r) + off`. The LEB/SLEB round trip and the shortest length hold for −200..200 and around the 2- and 3-byte limits. |
| `expr_minus` | violation | `lit1; lit3; minus` gives 3−1 where DWARF gives 1−3 (`machine.py:263`). |
| `expr_const` | violation | `const1u 0` raises TypeError (`machine.py:126`). |
| `cache_lifecycle` | pass | With three versions, two failed builds and two crashes, no load returns a complete cache of an earlier version, and `get_kind` through the memo answers from the session's own cache. In the start state, the operator properties of the builder and the reader, of the C helpers, and of the call frame rows hold (see below). |
| `cache_empty` | violation | A failed or crashed store leaves an empty database that the next load opens (`cachebuilder/debuginfo.py:68`). |
| `cache_tie` | violation | A binary rebuilt in the same tick its cache was written keeps that stale cache (`cachereader/debuginfo.py:52`). |
| `decl_order` | pass | `process_type` never trips its asserts. Any list that `deforder` returns respects hard and soft requirements and has no duplicate. |
| `decl_recursion` | violation | `deforder` of a struct that reaches itself through a pointer to a const copy of itself never returns (`indirect.py:98`). |
| `type_dedup` | pass | `typehash` merges only structurally identical types (checked against `Structural`, the greatest relation of equal local fields closed under inner and member types), and it merges every copy of a type. The store writes inner rows first and has no dangling reference. |
| `adbi_client` | pass | Every response is the agent's reply to that request. No reply byte is left unread. Every request ends. `dump`, `ls`, `get_memory` and `iter_injectable_symbols` return what the agent's reply tells (`ApiResultIsAgentsAnswer`). |
| `var_scope` | violation | `Variable.ranges` returns None, so a local answers outside its scope (`cachereader/variables.py:53`). |
| `line_ambiguity` | violation | `line2addr` counts rows, not addresses (`cachereader/debuginfo.py:155`). Line 11 of `/src/main.c`, two columns at one offset, is reported ambiguous, and line 10, whose only row was optimized out, answers None instead of failing with UnknownLocation. |

The start-state properties of `cache_lifecycle` are these:

- `VarMergeKeepsAddresses`, `VarOptimizedOutAnswersNone`, `VarLookupFindsVisible`, `VarExpressionAtTranslatedAddress` and `VarFrameBaseInsideFunction` cover variables and functions.
- `SourceLocationRoundTrip` and `SourceShortNamesRoundTrip` cover locations and file names.
- `LineAnswersPerProgram` follows a line from the units' line programs to `line2addr`'s answer. The path goes through `Lines.__init__`'s statement filter, each unit's file table, `insert_flc`'s shared ids, the store, and the join on the expanded file's id. A line with one statement row in all units gives that row's offset, with several "location ambiguous", and with none an error. The rows come from the line programs, not from the stored table.
- `FuncToAddrResolves` says `func2addr` gives the one function of a name in a file, and lists every candidate when there are several.
- `GetAddrResolves` checks `get_addr` on specs of every form, with and without `use_symbols`.
- `CStripAgreesWithLexer` says `strip_comments` gives the reference lexer's output and error. Texts where a code `/` directly precedes a quote or ends the text are excluded; see section 5.
- `CLineCountKept` says `iter_lines` numbers lines from 1, never backwards, and ends on the text's last line.
- `CToIdentifierIsIdentifier` says `to_identifier` always returns an identifier, and returns its input unchanged exactly when the input already is one.
- `VarFramepointersAgree` says that `Framepointers[a]` gives the same frame base as `Function.get_expression` of the one function holding `a`, or KeyError where that gives None. It applies when each function's frame-base list stays inside the function's bounds.
- `InsnKindOfLastMappingSymbol` composes `cachebuilder/insnset.py` with `get_kind_range`. An instruction gets the kind of the last mapping symbol at or before it. Every row `limit 1` may pick there has that kind.
- `CfaOfEveryInstructionHolds` composes `cfi.py` and `cfa.py`. Every instruction of a well-formed FDE, asked at its file offset, gets its own row's rule: never KeyError, and never a second row that `limit 1` could pick.

**Bounds.**

- **Expression machine.** Streams of length 4 reach:
  - every pop order with three distinct values;
  - an operand that is complete, cut after the opcode, or cut inside a two-byte LEB;
  - an early return followed by trailing bytes.
- **Cache.** Three versions and three ticks let a cache be built, the binary be rebuilt, and the cache be rejected or reused. Two failures and two crashes let both failure points be hit in one behaviour.
- **DeclOrder.** Seven types cover every case of the requirement rules.
- **TypeDedup.** The second unit varies the kind, name, member location and inner type one at a time, for 60 pairs.
- **Queries.**
  - Addresses lie before, on, between and past rows and section ends.
  - Paths share suffixes, so short names need more than one component.
  - Lines and names have zero, one or several rows.
  - Symbols repeat across types and sections.
- **C helpers.** Five bytes are enough for an opening, a body byte and a closing of every comment and literal kind, and for a backslash before a quote or a newline. That gives 19,608 texts.
- **Frame pointers.** Four functions sit side by side, one ending at `.text`'s end. Their frame bases are none, a single expression, a list with a gap, or a list covering the function. Each function has its own expressions, so an answer from the wrong function shows.
- **Mapping symbols.** The symbols include:
  - a kind change at the `.text`/`.data` boundary;
  - the `__dl_` forms;
  - a second symbol table;
  - symbols at `.data`'s end and outside every section;
  - two symbols of one kind at one address.
- **Call frames.** The FDEs cover these cases:
  - two FDEs meet at the `.text`/`.data` boundary;
  - two FDEs meet inside a section;
  - FDEs end exactly at a section end, which only the closed `addr2fo` translates;
  - one FDE runs past `.data`, so rows are skipped;
  - one FDE has no rows;
  - a CIE sits among the FDEs.
- **Client.** Two requests with a two-value sequence space make the sequence number wrap. Eight calls: `ping`, `attach`, `dump`, `ls`, `get_memory`, and `iter_injectable_symbols` with `'E'`, `''` and `'X'`. The replies include a signed word in `dump`, a `dump` reply missing a word, two segments out of order, a directory and a file, a FAIL and an empty payload.

**Fairness.**

- `WF_vars(Next)` on the machine and on `DeclOrder` is justified: `run` and `process_type` are plain loops and recursion.
- `AdbiClient` has weak fairness on `ClientStep` and on `Serve`. A blocked `recv` returns once bytes arrive, and the agent is assumed to answer every complete request.
- `CacheLifecycle`, `ReaderSession` and `TypeDedup` have no fairness and no liveness property. `TypeDedup`'s two temporal properties are action properties of the hashing step.
- Runs that end use `CHECK_DEADLOCK FALSE`: an evaluation, a `deforder` call and a store stop once they have returned or raised.

**Mutants.** Each property is shown to be sensitive to a plausible bug in the code it is about. `PROJECT.json` lists them.

## 5. Not modelled, and why

- **No behaviour to check.** The command shell, the test-vector generators, the native disassembler binding and output colouring are only formatting or I/O. So is the CLI `addr2line.py`, and so are `getstr`, `get` and `getfile` of the locations, which only format log text.
- **Queries.** The reader's SQL queries are the sets of rows they select. `get_datatype` is a stub.
- **pyelftools.** Its parsing is outside the repository. The DIEs, line programs and symbol tables it yields are the inputs of the model.
- **Unfinished parts.** `Function.first_insn` (the second line row inside a function) is not modelled. `types.py`, `lines.py` and `symbols.py` of the reader only fetch rows by id. `addr2line.py` is a command-line script that prints tables. `byte_reader` of `C.py` is file I/O.
- **Observations without a run of their own.** These are recorded as hazards in `PROJECT.json`:
  - A subprogram with an artificial parameter, or one `Variable()` rejected, is missing from the functions table (`functions.py:72`, 80–81). The spec (section 4.4) retains every subprogram with a low pc. `VarFrameBaseInsideFunction` is stated of the functions a build keeps.
  - `unique_end` (`cachereader/files.py:24`) walks back over the slashes of a path, and a relative path (a unit without `DW_AT_comp_dir`) has none. With the files `/a/b.c` and `b.c` both short names expand to `/a/b.c`. `SourceShortNamesRoundTrip` is checked over absolute paths only.
  - `use_symbols` returns a symbol's virtual address where `func2addr` returns a file offset.
  - A `file:func+offset` spec has no offset form: the whole `func+offset` is looked up as a name.
  - In `strip_comments`, a `/` of code followed by a quote returns to CODE without yielding the slash. The quote then opens nothing, so `/"//"` gives `/"`. A trailing `/` is lost (`C.py:140`).
  - `iter_lines` yields its pending parts once more after the loop, under the last line number (`C.py:249`).
  - An FDE that starts at the first address of a section which lies earlier in the file than the section before it in memory gets an empty row (`addr2fo`'s closed end, `cfi.py:32`). `get_expression_code` then raises KeyError for its instructions. The checked layout keeps file order.
  - `Framepointers[a]` tries any function's ranged row before the holding function's single expression. A frame-base list entry that reaches past its function would therefore answer for the next function. `VarFramepointersAgree` excludes such lists.
  - Two mapping symbols of different kinds at one address make `get_kind_range`'s `order by addr desc limit 1` pick either. `InsnKindOfLastMappingSymbol` is stated where the last symbol's kind is unique.
  - `iter_injectable_symbols` tests `which not in 'EIA'`, a substring test. `''`, `'EI'`, `'IA'` and `'EIA'` pass it. The request type `'INJ' + which` then has 3, 5 or 6 characters, and `type_encode` raises AssertionError instead of the ValueError the check meant (`adbi.py:154`). A sequence number is used up, and nothing is sent, so the connection stays aligned.
  - `Payload.get` returns its default only when the default is not None, and `dump`, `ls` and `processes` read their counts with default 0. A reply without the count is an empty result, not an error.
  - The typed methods that are generators (`iter_injectable_symbols`, `get_injectable_tracepoints`, `iter_injectables`) send nothing until first iterated. The model runs each one to the end at once.
  - The `pick` IndexError (`machine.py:74`) fails the evaluation like the StackUnderflow the spec names.
