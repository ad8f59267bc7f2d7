SPECIFICATION Spec
INVARIANTS RecordTellsStatus LeavesOneRecord PanicHidden AnswerHasId RecordsNamed
