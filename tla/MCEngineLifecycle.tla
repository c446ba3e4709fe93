-------------------------- MODULE MCEngineLifecycle --------------------------
(* Small instances of EngineLifecycle: one or two goroutines and two or    *)
(* three engines, so that one can be opened after another was closed.        *)
EXTENDS EngineLifecycle
=============================================================================
