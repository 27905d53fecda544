------------------------------ MODULE MCStores ------------------------------
(* The durable stores beside the response store, for TLC.  Each has its    *)
(* own tables, files and locks, and no property here relates two of them,  *)
(* so one run explores them side by side: `focus' says which one moves,    *)
(* and the states of the run are the sum of theirs, not the product.       *)
(* Whatever comes in twos (requests, servers, records, keys) is the same   *)
(* two model values, whose exchange is then a symmetry of every store.     *)
EXTENDS FileStore, Batches, VectorStores, Conversations, Blobs, Administration, TLC

CONSTANTS m1, m2, o1, f1, f2

Two      == {m1, m2}
Single   == {o1}
TwoFiles == {f1, f2}
HardFile == {f2}
Symmetry == Permutations(Two)

VARIABLE focus

StoresInit ==
  /\ focus \in {"files", "batches", "vectors", "conversations", "blobs", "administration"}
  /\ FilesInit /\ BatchesInit /\ VectorsInit /\ ConvInit /\ BlobsInit
  /\ AdminInit /\ (fixed => focus = "administration")

StoresNext ==
  /\ UNCHANGED focus
  /\ \/ /\ focus = "files" /\ FilesNext
        /\ UNCHANGED <<batchVars, vectorVars, convVars, blobVars, adminVars>>
     \/ /\ focus = "batches" /\ BatchesNext
        /\ UNCHANGED <<filesVars, vectorVars, convVars, blobVars, adminVars>>
     \/ /\ focus = "vectors" /\ VectorsNext
        /\ UNCHANGED <<filesVars, batchVars, convVars, blobVars, adminVars>>
     \/ /\ focus = "conversations" /\ ConvNext
        /\ UNCHANGED <<filesVars, batchVars, vectorVars, blobVars, adminVars>>
     \/ /\ focus = "blobs" /\ BlobsNext
        /\ UNCHANGED <<filesVars, batchVars, vectorVars, convVars, adminVars>>
     \/ /\ focus = "administration" /\ AdminNext
        /\ UNCHANGED <<filesVars, batchVars, vectorVars, convVars, blobVars>>

storesVars == <<focus, filesVars, batchVars, vectorVars, convVars, blobVars, adminVars>>
StoresSpec == StoresInit /\ [][StoresNext]_storesVars
=============================================================================
