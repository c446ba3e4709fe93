----------------------------- MODULE SchemaCache -----------------------------
(* The cache of schema checks (schema_cache.go) beside the schema of the     *)
(* database (external), for one Go type with an embedded SimString field.    *)
(* With AutoSchema the cache holds the types UpdateSchema has sent, without  *)
(* it the type names a read of the schema has shown.                         *)
(* What the schema may hold of it: the type, the vector predicate that goes  *)
(* with it, and a type with a longer name that begins with this one's.       *)
SchemaPart == {"type", "vector", "longer"}

VARIABLES
    schema,         \* the database's
    synced,         \* is the type in schemaCheckCache.synced?
    verified        \* is its name in schemaCheckCache.verified?

cache == <<synced, verified>>
schemaVars == <<schema, cache>>

SchemaInit ==
    /\ schema = {}
    /\ synced = FALSE
    /\ verified = FALSE

markSynced == synced' = TRUE /\ UNCHANGED verified
markVerified == verified' = TRUE /\ UNCHANGED synced

invalidateSynced == synced' = FALSE /\ UNCHANGED verified \* mutant of invalidate
invalidate == synced' = FALSE /\ verified' = FALSE

(* UpdateSchema: dgman.CreateSchema, then the Alter of the shadow vectors.   *)
CreateSchema == schema' = schema \cup {"type"}
AlterVectors == schema' = schema \cup {"vector"}

(* A schema from elsewhere: AlterSchema, or UpdateSchema of another type.    *)
AlterOther == schema' \in {schema \cup {"longer"}, schema \cup {"type", "vector"}}

Wipe == schema' = {}

(* A drop of everything, of a predicate or of a type.                        *)
DropPart == schema' \in SUBSET schema

(* process looks for the text "type " and the name: a longer name will do.   *)
Contains == schema \cap {"type", "longer"} # {}
=============================================================================
