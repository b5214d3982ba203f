SPECIFICATION Spec
INVARIANTS FetchSetsError
