----------------------------- MODULE RouterItem -----------------------------
(* The handlers of one route, method and version, and how Router.push       *)
(* extends them (routing/router.go).                                        *)
EXTENDS Integers, SequencesExt

NewItem == [handlers |-> <<>>, handlerIndex |-> -1]

\* The first handler of an item is put behind the global middlewares.
Base(globals, item) == IF item.handlers = <<>> THEN globals ELSE item.handlers

PushFor(globals, item, hs) == [item EXCEPT !.handlers = Base(globals, item) \o hs]

PushUse(item, h) == [item EXCEPT !.handlers = Append(@, h)]

\* Mutant: HandlerIndex is not set again when the main handler is replaced.
PushAdd_KeepsIndex(globals, item, h) ==
    LET before == IF item.handlerIndex > -1
                  THEN RemoveAt(item.handlers, item.handlerIndex + 1)
                  ELSE Base(globals, item)
    IN [handlers |-> Append(before, h),
        handlerIndex |-> IF item.handlerIndex > -1 THEN item.handlerIndex ELSE Len(before)]

\* An earlier main handler of the item is replaced.
PushAdd(globals, item, h) ==
    LET before == IF item.handlerIndex > -1
                  THEN RemoveAt(item.handlers, item.handlerIndex + 1)
                  ELSE Base(globals, item)
    IN [handlers |-> Append(before, h), handlerIndex |-> Len(before)]
=============================================================================
