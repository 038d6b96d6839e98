------------------------------ MODULE MCKernels ------------------------------
(***************************************************************************)
(* The machines below the forward, one at a time: a behaviour picks one of *)
(* them at the start and the others stay where they begin.                 *)
(***************************************************************************)
EXTENDS TensorViews, BatchAttention, DenseForward, DeviceContext, Sampler

VARIABLE machine   \* the machine at work

kernelVars == <<machine, viewVars, attnVars, denseVars, contextVars, samplerVars>>

\* Views of a 2 by 3 tensor: shapes of 6, 4, 3, 2, 1 and 0 elements.
KBase    == <<2, 3>>
KShapes  == {<<6>>, <<3, 2>>, <<1, 2, 3>>, <<4>>, <<2, 2>>, <<1, 3>>, <<2>>, <<3>>,
             <<1, 1>>, << >>, <<0, 2>>}
KSources == {[a \in 0 .. 5 |-> 10 + a]}

\* Calls of two requests: one without rows, one with a past, one with a page
\* more than it needs, one with a page too few (refused when paged), each
\* before a decode, a prefill and a longer past.
KRequest(q, kv, table) == [q_len |-> q, kv_len |-> kv, table |-> table]
KFirst  == {KRequest(0, 2, <<2>>), KRequest(2, 3, <<2, 0>>), KRequest(1, 3, <<2, 0, 1>>),
             KRequest(1, 3, <<1>>)}
KSecond == {KRequest(1, 1, <<1>>), KRequest(2, 2, <<0>>), KRequest(1, 3, <<0, 2>>)}
KCalls  == {[kind |-> kind, device |-> device, nhead |-> heads[1], nkvh |-> heads[2],
             reqs |-> <<a, b>>] :
              kind \in {"paged", "varlen"}, device \in {"cpu", "gpu"},
              heads \in {<<2, 1>>, <<4, 2>>}, a \in KFirst, b \in KSecond}

\* What is fed to the dense session.
KInputs == {<<"a">>, <<"b">>, <<"a", "b">>, <<"b", "b", "a">>}

\* Batches to choose from: ties of the largest and of other logits, rows longer
\* than the block, temperatures of 0, 2, 1 and 1/2, top_k off, on and beyond the
\* row, top_p below and at 1; the far rows take the kernel's weights beyond
\* MaxFloat at temperature 1/2, and to 0 at 1/2 and at 2.
KRow(logits, inv_temp, top_p, top_k) ==
  [logits |-> logits, inv_temp |-> inv_temp, top_p |-> top_p, top_k |-> top_k]
KExp     == [e \in -50 .. 50 |-> IF e < -6 THEN 0 ELSE IF e > 6 THEN Infinite ELSE 2 ^ (e + 6)]
KLogits  == {<<1, 3, 2>>, <<2, 2, 0>>, <<0, 3, 1, 3>>}
KLong    == {<<0, 1, 2, 3, 4>>, <<0, 1, 1, 3, 0, 3>>}
KFar     == {<<7, 0, 8>>, <<-9, -7, -8>>}
KArgmax(device, a, b) ==
  [op |-> "argmax", device |-> device, rows |-> <<KRow(a, One, 1, 1), KRow(b, One, 1, 1)>>]
KSampled(device, a, inv_temp, p, k) ==
  [op |-> "sample", device |-> device,
   rows |-> <<KRow(a, inv_temp, p, k), KRow(<<0, 1>>, One, 4, 1)>>]
KBatches ==
  {KArgmax(device, a, b) : device \in {"cpu", "gpu"}, a, b \in KLogits \cup KLong}
  \cup {KSampled(device, a, t, p, k) : device \in {"cpu", "gpu"}, a \in KLogits \cup KFar,
                                       t \in {0, 1, 2, 4}, p \in {0, 3, 4}, k \in {-1, 2, 9}}
KTieBatches == {KSampled("cpu", a, t, 3, 2) : a \in KLogits, t \in {0, One}}

KernelsInit ==
  /\ machine \in {"views", "attention", "dense", "context", "sampler"}
  /\ ViewsInit /\ AttnInit /\ DenseInit /\ ContextInit /\ SamplerInit
  /\ machine # "sampler" => batch = CHOOSE b \in Batches : TRUE

KernelsNext ==
  /\ UNCHANGED machine
  /\ \/ /\ machine = "views" /\ ViewsNext
        /\ UNCHANGED <<attnVars, denseVars, contextVars, samplerVars>>
     \/ /\ machine = "attention" /\ AttnNext
        /\ UNCHANGED <<viewVars, denseVars, contextVars, samplerVars>>
     \/ /\ machine = "dense" /\ DenseNext
        /\ UNCHANGED <<viewVars, attnVars, contextVars, samplerVars>>
     \/ /\ machine = "context" /\ ContextNext
        /\ UNCHANGED <<viewVars, attnVars, denseVars, samplerVars>>
     \/ /\ machine = "sampler" /\ SamplerNext
        /\ UNCHANGED <<viewVars, attnVars, denseVars, contextVars>>

Spec == KernelsInit /\ [][KernelsNext]_kernelVars

-----------------------------------------------------------------------------
\* Every machine keeps its own types; in particular the views stay inside the
\* storage and the current runtime is one of the thread.
KernelsTypeOK == ViewsTypeOK /\ AttnTypeOK /\ DenseTypeOK /\ ContextTypeOK
                 /\ SamplerTypeOK
=============================================================================
