SPECIFICATION Spec
PROPERTIES PathMeaningKept PathPartsFit EncodingsReversible TableCellsKept DateSpansAgree DateEntriesPlaced RequestsKept InstructionsKept DocumentTextSaid DocumentSettles
\* Every word ends at the bound of its kind
CHECK_DEADLOCK FALSE
