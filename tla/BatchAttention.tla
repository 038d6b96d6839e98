--------------------------- MODULE BatchAttention ---------------------------
(***************************************************************************)
(* The batched attention operators, paged and varlen, on either device.    *)
(* A call packs the rows of its requests into one query and one output     *)
(* buffer; a paged one has the page tables of all requests in one list.    *)
(* The scratch buffer of the GPU kernels outlives the call.                *)
(*                                                                         *)
(* The keys and values of a page row, or of a row of a varlen block, are   *)
(* told by their place.                                                    *)
(***************************************************************************)
EXTENDS Tensor, SelfAttention

CONSTANTS
  PageSize,   \* page_size
  Calls,      \* bound: the calls made
  MaxCalls,   \* bound: how many one after the other
  NoCall,     \* between calls
  Garbage     \* what fresh memory holds

\* A call: of each request the rows, the keys and values, and the page table.
BatchCall ==
  [kind : {"paged", "varlen"}, device : {"cpu", "gpu"},
   nhead : Nat \ {0}, nkvh : Nat \ {0},
   reqs : Seq([q_len : Nat, kv_len : Nat, table : Seq(Nat)])]

ASSUME PageAssumption == PageSize \in Nat \ {0} /\ MaxCalls \in Nat
ASSUME CallAssumption ==
  /\ Calls \subseteq BatchCall /\ NoCall \notin Calls
  \* the single-sequence operator asserts it of the same model
  /\ \A c \in Calls : c.nhead % c.nkvh = 0
\* A score that was set to 0 is told from the score of any query and key.
ASSUME ZeroAssumption ==
  Zero \notin [q : Nat \X Nat \X Nat, k : {"k"} \X Seq(Nat)]

VARIABLES
  call,       \* the call at work
  served,     \* r: requests done
  bt_offset,  \* bt_offset
  out,        \* attn_val, flat
  scratch,    \* the scratch buffer of the thread
  made        \* calls made

attnVars == <<call, served, bt_offset, out, scratch, made>>

-----------------------------------------------------------------------------
Batch(c) == DOMAIN c.reqs

Sum(s) == FoldLeft(LAMBDA a, b : a + b, 0, s)
cu_seqlens_q(c, r) == Sum([j \in 1 .. r |-> c.reqs[j].q_len])
BlockTables(c) == FlattenSeq([r \in Batch(c) |-> c.reqs[r].table])

ValidVarlen(c) ==
  c.reqs # << >> /\ \A r \in Batch(c) : c.reqs[r].q_len <= c.reqs[r].kv_len
ValidPaged(c) ==
  /\ c.reqs # << >>
  /\ \A r \in Batch(c) :
       /\ c.reqs[r].q_len <= c.reqs[r].kv_len
       /\ c.reqs[r].kv_len <= Len(c.reqs[r].table) * PageSize
Valid(c) == IF c.kind = "paged" THEN ValidPaged(c) ELSE ValidVarlen(c)

\* The packed queries, and the keys (or values) of the pool and of a block.
Queries(c) == [row \in 0 .. cu_seqlens_q(c, Len(c.reqs)) * c.nhead - 1 |->
  LET i == row \div c.nhead
      r == CHOOSE r \in Batch(c) : cu_seqlens_q(c, r - 1) <= i /\ i < cu_seqlens_q(c, r)
  IN  <<r, i - cu_seqlens_q(c, r - 1), row % c.nhead>>]
BigCell(name, c, page_row, g) == <<name, <<page_row, g>>>>
BlockCell(name, c, r, pos, g) == <<name, <<r, pos, g>>>>

\* The same in terms of a request's own positions.
KeyCell(c, r, pos, g) ==
  IF c.kind = "varlen" THEN <<r, pos, g>>
  ELSE <<c.reqs[r].table[pos \div PageSize + 1] * PageSize + (pos % PageSize), g>>

-----------------------------------------------------------------------------
AttnInit ==
  /\ call = NoCall /\ served = 0 /\ bt_offset = 0
  /\ out = << >> /\ scratch = << >> /\ made = 0

\* max_scratch_bytes: varlen takes the scratch of its largest request at once.
Largest(c) ==
  LET cells == {ScoreCells([q_len |-> c.reqs[r].q_len, kv_len |-> c.reqs[r].kv_len,
                            nhead |-> c.nhead]) : r \in Batch(c)}
  IN  CHOOSE n \in cells : \A m \in cells : m <= n

Take(c) ==
  /\ call = NoCall /\ made < MaxCalls /\ Valid(c)
  /\ call' = c /\ made' = made + 1
  /\ served' = 0 /\ bt_offset' = 0
  /\ out' = [o \in 0 .. cu_seqlens_q(c, Len(c.reqs)) * c.nhead - 1 |-> Garbage]
  /\ scratch' = IF c.kind = "varlen" /\ c.device = "gpu"
                THEN Scratch(scratch, Largest(c), Garbage) ELSE scratch

\* Mutant: a table is looked for behind as many pages as the rows need.
TablePageExact(c, r, p) ==
  BlockTables(c)[Sum([j \in 1 .. r - 1 |->
                        (c.reqs[j].kv_len + PageSize - 1) \div PageSize]) + p + 1]

\* Page p of the table at bt_offset.
TablePage(c, r, p) == BlockTables(c)[bt_offset + p + 1]

\* gather_kv_cpu: page by page, of the last one only the rows that are missing.
CpuGather(name, c, r) ==
  LET req   == c.reqs[r]
      Rest(p) == req.kv_len - p * PageSize
      take(p) == IF Rest(p) < PageSize THEN Rest(p) ELSE PageSize
      Copied(buf, p) == [cell \in DOMAIN buf |->
        LET row == cell \div c.nkvh - p * PageSize
        IN  IF row \in 0 .. take(p) - 1
            THEN BigCell(name, c, TablePage(c, r, p) * PageSize + row, cell % c.nkvh)
            ELSE buf[cell]]
  IN  FoldLeft(LAMBDA buf, p : Copied(buf, p - 1),
               [cell \in 0 .. req.kv_len * c.nkvh - 1 |-> Zero],
               [p \in DOMAIN req.table |-> p])

\* paged_gather_kernel: row by row, into memory with anything in it.
GpuGather(name, c, r) ==
  [cell \in 0 .. c.reqs[r].kv_len * c.nkvh - 1 |->
     LET tok      == cell \div c.nkvh
         page_idx == tok \div PageSize
     IN  IF page_idx >= Len(c.reqs[r].table) THEN Garbage
         ELSE BigCell(name, c, TablePage(c, r, page_idx) * PageSize + (tok % PageSize),
                      cell % c.nkvh)]

Gathered(name, c, r) ==
  IF c.device = "gpu" THEN GpuGather(name, c, r) ELSE CpuGather(name, c, r)

Block(name, c, r) == [cell \in 0 .. c.reqs[r].kv_len * c.nkvh - 1 |->
                        BlockCell(name, c, r, cell \div c.nkvh, cell % c.nkvh)]

\* The rows of request r in the packed buffers are a slice of their first
\* dimension; attention with its keys k and values v fills them.
Attend(r, k, v) ==
  LET S   == [q_len |-> call.reqs[r].q_len, kv_len |-> call.reqs[r].kv_len,
              nhead |-> call.nhead, nkvh |-> call.nkvh]
      packed == Create(<<cu_seqlens_q(call, Len(call.reqs)), call.nhead>>)
      slice  == Slice(packed, 1, cu_seqlens_q(call, r - 1), cu_seqlens_q(call, r))
      q == [x \in 0 .. Numel(slice.shape) - 1 |-> Queries(call)[slice.offset + x]]
      room == Scratch(scratch, ScoreCells(S), Garbage)
  IN  IF call.device = "gpu"
      THEN /\ scratch' = GpuScores(S, q, k, room)
           /\ out' = Load(out, slice, Weighted(S, scratch', v))
      ELSE /\ out' = Load(out, slice, CpuAttention(S, q, k, v))
           /\ UNCHANGED scratch

\* The keys of a paged request are gathered, those of a varlen one are at hand.
AttendPaged(r) ==
  call.kind = "paged" /\ Attend(r, Gathered("k", call, r), Gathered("v", call, r))
AttendVarlen(r) ==
  call.kind = "varlen" /\ Attend(r, Block("k", call, r), Block("v", call, r))

\* A request without rows is skipped, and so are its pages.
Serve ==
  /\ call # NoCall /\ served < Len(call.reqs)
  /\ LET r == served + 1 IN
     /\ IF call.reqs[r].q_len = 0 THEN UNCHANGED <<out, scratch>>
        ELSE AttendPaged(r) \/ AttendVarlen(r)
     /\ bt_offset' = bt_offset + Len(call.reqs[r].table)
  /\ served' = served + 1
  /\ UNCHANGED <<call, made>>

Return ==
  /\ call # NoCall /\ served = Len(call.reqs)
  /\ call' = NoCall /\ out' = << >> /\ served' = 0 /\ bt_offset' = 0
  /\ UNCHANGED <<scratch, made>>

AttnNext == (\E c \in Calls : Take(c)) \/ Serve \/ Return

AttnSpec == AttnInit /\ [][AttnNext]_attnVars

-----------------------------------------------------------------------------
\* The rows of the requests served, read out of the packed output.
RowsOf(r) == [x \in (0 .. call.reqs[r].q_len - 1) \X (0 .. call.nhead - 1) |->
                out[(cu_seqlens_q(call, r - 1) + x[1]) * call.nhead + x[2]]]

Causal == INSTANCE CausalAttention WITH
  call <- call, served <- served, rows <- [r \in 1 .. served |-> RowsOf(r)]

AttnTypeOK ==
  /\ call \in Calls \cup {NoCall} /\ made \in 0 .. MaxCalls
  /\ call = NoCall => served = 0 /\ bt_offset = 0 /\ out = << >>
  /\ call # NoCall =>
       /\ served \in 0 .. Len(call.reqs)
       /\ bt_offset \in 0 .. Len(BlockTables(call))
       /\ DOMAIN out = 0 .. cu_seqlens_q(call, Len(call.reqs)) * call.nhead - 1

\* On either device, for paged and varlen calls, whatever the requests before
\* left in the page tables and in the scratch buffer, every row attends to its
\* own request's keys and values up to its own position and to nothing else.
AttendsCausally == Causal!Spec
=============================================================================
