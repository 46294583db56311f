------------------------------ MODULE MCTasks -------------------------------
EXTENDS Tasks

CONSTANTS main, setter, getter

Do(op, arg) == [op |-> op, arg |-> arg, to |-> arg]
For(op, to) == [op |-> op, arg |-> to, to |-> to]

ProgramOf ==
  [t \in {main, setter, getter} |->
    IF t = main THEN
      << {Do("MakePromise", main)}, {Do("GetFuture", main)},
         {For("CopyFuture", getter)}, {Do("Create", getter)},
         {For("HandOver", setter), Do("DropPromise", main)}, {Do("Create", setter)},
         {[op |-> "Move", arg |-> setter, to |-> getter], Do("Cancel", setter),
          Do("Overwrite", getter)},
         {Do("Get", main), Do("Ask", main), Do("DropFuture", main)},
         {Do("Join", setter), Do("Join", getter), Do("Detach", setter), Do("Ask", main)} >>
    ELSE IF t = setter THEN
      << {Do("Disable", setter), Do("Skip", setter)},
         {Do("TestCancel", setter), Do("Enable", setter)},
         {Do("SetValue", setter), Do("SetException", setter)} >>
    ELSE
      << {Do("Get", getter), Do("WaitAny", getter)},
         {Do("Join", setter), Do("DropFuture", getter), Do("Destroy", setter)} >>]
=============================================================================
