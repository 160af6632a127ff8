\* Seven parts: up to four intervals, with every gap between them.
SPECIFICATION Spec
CONSTANT MaxPart = 6
INVARIANT Ordered
PROPERTY ImplementsPartSet
