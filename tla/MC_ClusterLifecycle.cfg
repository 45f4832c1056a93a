CONSTANTS
    Nil = Nil
    NoValue <- Nil
    Script <- MCScript
    Specs <- MCSpecs
SPECIFICATION Spec
INVARIANT TypeOK
INVARIANT SecretsOutliveStatefulSet
INVARIANT IInv
INVARIANT SecretsInv
PROPERTY UpdateConverges
