CONSTANTS
    Nil = Nil
    NoValue <- Nil
    Script <- MCScript
    Specs <- MCSpecs
SPECIFICATION Spec
INVARIANT NoNilDereference
