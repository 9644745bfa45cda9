\* Two connections, an application that calls connect() at any time.
CONSTANTS
  MaxConnects = 2
  MaxData = 2
  Polls = FALSE
SPECIFICATION Spec
INVARIANT DescriptorsMatch
INVARIANT StateMatchesSocket
INVARIANT ActsOnItsSocket
PROPERTY HangupNoticed
PROPERTY HandlersEnd
