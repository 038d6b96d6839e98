----------------------------- MODULE TensorViews -----------------------------
(***************************************************************************)
(* A tensor and the views made of it one after the other, over one storage.*)
(* The chain implements Array: whatever is permuted, viewed and sliced, an *)
(* index of the last view stands for the element it should, and loading    *)
(* through the view changes those elements of the tensor and no others.    *)
(***************************************************************************)
EXTENDS Tensor

CONSTANTS
  Base,       \* bound: the shape of the tensor
  Shapes,     \* bound: the shapes views are asked for
  MaxOps,     \* bound: operations
  Sources     \* bound: what is loaded, values by position

ASSUME ViewsAssumption ==
  Base \in Seq(Nat) /\ Shapes \subseteq Seq(Nat) /\ MaxOps \in Nat

VARIABLES
  mem,    \* the storage
  view,   \* the view at hand
  ops     \* how many operations made it

viewVars == <<mem, view, ops>>

Viewed(u) == view' = u /\ ops' = ops + 1 /\ UNCHANGED mem

ViewsInit ==
  /\ view = Create(Base)
  /\ mem = [a \in 0 .. Numel(Base) - 1 |-> a]
  /\ ops = 0

ViewsNext ==
  /\ ops < MaxOps
  /\ \/ \E order \in [DOMAIN view.shape -> DOMAIN view.shape] :
          PermuteFits(view, order) /\ Viewed(Permute(view, order))
     \/ \E shape \in Shapes : ViewFits(view, shape) /\ Viewed(View(view, shape))
     \/ \E dim \in DOMAIN view.shape, start, end \in 0 .. Numel(Base) :
          SliceFits(view, dim, start, end) /\ Viewed(Slice(view, dim, start, end))
     \* every caller loads a tensor without gaps
     \/ \E src \in Sources :
          /\ IsContiguous(view)
          /\ mem' = Load(mem, view, src) /\ ops' = ops + 1 /\ UNCHANGED view

ViewsSpec == ViewsInit /\ [][ViewsNext]_viewVars

-----------------------------------------------------------------------------
\* The index of the tensor whose element stands at an address.
IndexAt(a) == CHOOSE ix \in Indices(Base) : Address(Create(Base), ix) = a

Arrays == INSTANCE Array WITH
  array <- [ix \in Indices(Base) |-> mem[Address(Create(Base), ix)]],
  dims  <- view.shape,
  names <- [ix \in Indices(view.shape) |-> IndexAt(Address(view, ix))]

ViewsTypeOK ==
  /\ ops \in 0 .. MaxOps
  /\ view.shape \in Seq(Nat) /\ view.offset \in Nat
  /\ DOMAIN view.strides = DOMAIN view.shape
  /\ \A ix \in Indices(view.shape) : Address(view, ix) \in DOMAIN mem

\* Through any chain of permutes, views and slices an index of the last view
\* stands for the element the same steps give on arrays, and a load through a
\* view writes those elements and no others (Tensor::permute, view, slice, load).
ViewsAreArrays == Arrays!Spec
=============================================================================
