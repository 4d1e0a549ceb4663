---------------------------- MODULE MCMessagePort ----------------------------
(* The Dart VMs for the run of MessagePort: the version the core was built *)
(* for, an older minor version without a symbol, and another major one.    *)
EXTENDS MessagePort

CONSTANTS CloseNativePort

MCVMs == {[major |-> 2, functions |-> {PostCObject}],
          [major |-> 2, functions |-> {CloseNativePort}],
          [major |-> 3, functions |-> Symbols]}
==============================================================================
