------------------------------- MODULE Tensor -------------------------------
(***************************************************************************)
(* Tensors of src/tensor: a shape, a stride per dimension and an offset    *)
(* into a storage, and the operations that make new views of the storage.  *)
(* Dimensions and the positions in an order count from 1; offsets, strides *)
(* and indices count elements from 0 (the code's offset is in bytes).      *)
(***************************************************************************)
EXTENDS Integers, SequencesExt

\* The number of elements of a shape.
Numel(shape) == FoldLeft(LAMBDA a, b : a * b, 1, shape)

\* The strides of a tensor with nothing between its elements, last one first.
RowMajor(shape) == [i \in DOMAIN shape |-> Numel(SubSeq(shape, i + 1, Len(shape)))]

Create(shape) == [shape |-> shape, strides |-> RowMajor(shape), offset |-> 0]

\* The indices of a shape, and the element of the storage an index stands for.
Indices(shape) ==
  LET below == UNION {0 .. shape[i] - 1 : i \in DOMAIN shape}
  IN  {ix \in [DOMAIN shape -> below] : \A i \in DOMAIN shape : ix[i] < shape[i]}
Address(t, ix) == t.offset + FoldLeft(LAMBDA a, i : a + ix[i] * t.strides[i], 0,
                                      [i \in DOMAIN ix |-> i])

\* Mutant: only the innermost dimension is looked at.
IsContiguousInside(t) == t.strides = << >> \/ Last(t.strides) = 1

IsContiguous(t) == t.strides = RowMajor(t.shape)

\* Each operation checks its arguments and throws when they do not fit.
PermuteFits(t, order) ==
  /\ Len(order) = Len(t.shape)
  /\ Range(order) \subseteq DOMAIN t.shape
  /\ IsInjective(order)
Permute(t, order) ==
  [t EXCEPT !.shape = [i \in DOMAIN order |-> t.shape[order[i]]],
            !.strides = [i \in DOMAIN order |-> t.strides[order[i]]]]

ViewFits(t, shape) == Numel(shape) = Numel(t.shape) /\ IsContiguous(t)
View(t, shape) == [Create(shape) EXCEPT !.offset = t.offset]

\* Mutant: the end is not compared with the dimension.
SliceFitsAny(t, dim, start, end) == dim \in DOMAIN t.shape /\ start <= end

SliceFits(t, dim, start, end) ==
  dim \in DOMAIN t.shape /\ start <= end /\ end <= t.shape[dim]
Slice(t, dim, start, end) ==
  [t EXCEPT !.shape[dim] = end - start, !.offset = @ + start * t.strides[dim]]

\* Load copies numel elements to data(), whatever the strides are.
Load(mem, t, src) ==
  [a \in DOMAIN mem |-> IF a - t.offset \in 0 .. Numel(t.shape) - 1
                        THEN src[a - t.offset] ELSE mem[a]]
=============================================================================
