-------------------------------- MODULE Array --------------------------------
(***************************************************************************)
(* What a chain of views of one tensor means, without addresses: an array, *)
(* and a view that names an element of the array at each of its indices.   *)
(***************************************************************************)
EXTENDS Integers, FiniteSets, Sequences

CONSTANTS Shapes, Sources

VARIABLES array, dims, names

Below(shape) == UNION {0 .. shape[i] - 1 : i \in DOMAIN shape}
Cells(shape) ==
  {ix \in [DOMAIN shape -> Below(shape)] : \A i \in DOMAIN shape : ix[i] < shape[i]}

\* How many indices of a shape come before ix when the last one runs fastest.
Before(jx, ix) == \E i \in DOMAIN ix : jx[i] < ix[i] /\ \A j \in 1 .. i - 1 : jx[j] = ix[j]
Rank(shape, ix) == Cardinality({jx \in Cells(shape) : Before(jx, ix)})

Show(shape, cell) == dims' = shape /\ names' = cell /\ UNCHANGED array

Permute ==
  \E order \in [1 .. Len(dims) -> 1 .. Len(dims)] :
    /\ \A i, j \in DOMAIN order : order[i] = order[j] => i = j
    /\ LET shape == [i \in DOMAIN order |-> dims[order[i]]]
           \* the index of the permuted array that ix was moved to
           Moved(ix) == [i \in DOMAIN order |-> ix[order[i]]]
       IN  Show(shape, [jx \in Cells(shape) |->
                          names[CHOOSE ix \in Cells(dims) : Moved(ix) = jx]])

View ==
  \E shape \in Shapes :
    /\ Cardinality(Cells(shape)) = Cardinality(Cells(dims))
    /\ Show(shape, [jx \in Cells(shape) |->
         names[CHOOSE ix \in Cells(dims) : Rank(dims, ix) = Rank(shape, jx)]])

Slice ==
  \E dim \in DOMAIN dims : \E end \in 0 .. dims[dim] : \E start \in 0 .. end :
    LET shape == [dims EXCEPT ![dim] = end - start]
    IN  Show(shape, [jx \in Cells(shape) |-> names[[jx EXCEPT ![dim] = @ + start]]])

\* The elements the view names get the values of the source, in its order.
Load ==
  \E src \in Sources :
    /\ array' = [c \in DOMAIN array |->
         IF \E ix \in Cells(dims) : names[ix] = c
         THEN src[Rank(dims, CHOOSE ix \in Cells(dims) : names[ix] = c)]
         ELSE array[c]]
    /\ UNCHANGED <<dims, names>>

Init == names = [ix \in Cells(dims) |-> ix] /\ DOMAIN array = Cells(dims)

Next == Permute \/ View \/ Slice \/ Load

Spec == Init /\ [][Next]_<<array, dims, names>>
=============================================================================
